---- MODULE Spec2Model ----
(***************************************************************************)
(* A model of the baldguard expression language: the Value union, the      *)
(* operator catalog on Value (baldguard-language/src/evaluation.rs), and   *)
(* the recursive evaluator over the Expression tree (tree.rs).             *)
(*                                                                         *)
(* Value::Int is an i64 in the source.  The model keeps the two's          *)
(* complement width but scales it down to IntBits bits, so that the        *)
(* extremes of the range and every overflow are reachable by enumeration.  *)
(* Str payloads are sequences of one-character strings over Chars.         *)
(***************************************************************************)
EXTENDS Integers, Sequences, FiniteSets, TLC

VARIABLES
    overflowChecks, \* build profile: TRUE = overflow checks on (debug), FALSE = wrapping (release)
    left,           \* operand (self) handed to an operator function
    right,          \* operand (other) handed to a binary operator function
    operator,       \* name of the operator function that was called, "none" before the call
    outcome,        \* what that call produced (Ok, Err or a panic)
    expr,           \* the Expression handed to evaluate
    vars,           \* the Variables handed to evaluate
    evaluated,      \* TRUE once evaluate has run on expr
    reevaluated,    \* TRUE once evaluate has run on expr again
    result,         \* what evaluate produced
    log,            \* the nodes of expr evaluate visited, as paths from the root, in order
    applied,        \* the nodes whose match on the operator evaluate reached, in order
    store,          \* a Variables that put, remove and extend are called on
    before,         \* store as it was before the last call on it
    call,           \* the last call on store: its function and arguments
    returned,       \* what the last remove returned
    lastPut,        \* per name: the value of the latest put no remove followed, if any
    rendered,       \* what the last show and Display of store wrote, and the order of iteration
    record,         \* a struct deriving ToVariables and SetFromAssignment: its fields' values
    recordBefore,   \* record as it was before the last call on it
    assignment,     \* the Assignment handed to the last set_from_assignment
    setResult,      \* what that set_from_assignment returned
    materialized,   \* the Variables the last to_variables returned
    chat,           \* Session::chat: filter, settings and user variables
    chatBefore,     \* chat as it was before the last message
    message,        \* the last message handle_message was called with
    updates,        \* the Vec<SendUpdate> that call built
    sessions,       \* the sessions map of main: per chat id its Session, if any
    database,       \* the chats collection: per chat id the stored document, if any
    sessionsLock,   \* the Mutex around the sessions map: its holder and who waits for it
    databaseLock,   \* the Mutex around the Db: its holder and who waits for it
    tasks,          \* per handler task: where it stands, its chat id, the updates to send
    now,            \* Instant::now(), in seconds since the process started first
    cleanup,        \* where the task spawned for the cleanup routine stands
    lastCall,       \* per chat id: how the last handle_message on its session ended
    migrations,     \* the migrations collection: the names recorded
    runs,           \* the migration actions run so far, over all startups, in order
    startup,        \* where Db::new stands in migrate, and which startup this is
    telegram,       \* a teloxide Message: which of its parts are present
    derived         \* the Variables derived from that message

opsVars == <<left, right, operator, outcome>>
evalVars == <<expr, vars, evaluated, reevaluated, result, log, applied>>
storeVars == <<store, before, call, returned, lastPut, rendered>>
recordVars == <<record, recordBefore, assignment, setResult, materialized>>
sessionVars == <<chat, chatBefore, message, updates>>
mainVars == <<sessions, database, sessionsLock, databaseLock, tasks, now, cleanup, lastCall>>
migrateVars == <<migrations, runs, startup>>
messageVars == <<telegram, derived>>
processVars == <<mainVars, migrateVars, messageVars>>
vars_all ==
    <<overflowChecks, opsVars, evalVars, storeVars, recordVars, sessionVars, processVars>>

----------------------------------------------------------------------------
(* Bounds of the model *)

IntBits == 3        \* width of Value::Int in the model (64 in the source)
MaxStrLen == 2      \* longest Str operand drawn as an input
MaxDepth == 1       \* deepest operator nesting of the Expressions drawn as inputs

Modulus == 2 ^ IntBits
MinInt == 0 - (2 ^ (IntBits - 1))
MaxInt == (2 ^ (IntBits - 1)) - 1
Ints == MinInt..MaxInt

Chars == {"a", ".", "["}
RECURSIVE StringsUpTo(_)
StringsUpTo(n) ==
    IF n = 0 THEN {<<>>}
    ELSE LET shorter == StringsUpTo(n - 1)
         IN  shorter \cup {Append(s, c) : s \in shorter, c \in Chars}
Strings == StringsUpTo(MaxStrLen)

----------------------------------------------------------------------------
(* Value: enum Value { Int(i64), Str(String), Bool(bool), Empty } *)

VInt(n)  == [s |-> <<>>, t |-> "Int", i |-> n, b |-> FALSE]
VStr(x)  == [s |-> x, t |-> "Str", i |-> 0, b |-> FALSE]
VBool(x) == [s |-> <<>>, t |-> "Bool", i |-> 0, b |-> x]
VEmpty   == [s |-> <<>>, t |-> "Empty", i |-> 0, b |-> FALSE]

Values == {VInt(n) : n \in Ints} \cup {VStr(x) : x \in Strings}
              \cup {VBool(x) : x \in BOOLEAN} \cup {VEmpty}

type_str(v) ==
    CASE v.t = "Int"   -> "int"
      [] v.t = "Str"   -> "str"
      [] v.t = "Bool"  -> "bool"
      [] v.t = "Empty" -> "empty"

(* impl Display for Value; a text is the sequence of its pieces *)
Digit(d) ==
    CASE d = 0 -> "0" [] d = 1 -> "1" [] d = 2 -> "2" [] d = 3 -> "3" [] d = 4 -> "4"
      [] d = 5 -> "5" [] d = 6 -> "6" [] d = 7 -> "7" [] d = 8 -> "8" [] d = 9 -> "9"
RECURSIVE Digits(_)
Digits(n) == IF n < 10 THEN <<Digit(n)>> ELSE Digits(n \div 10) \o <<Digit(n % 10)>>
i64_fmt(n) == IF n < 0 THEN <<"-">> \o Digits(0 - n) ELSE Digits(n)

Value_fmt(v) ==
    CASE v.t = "Int"   -> i64_fmt(v.i)
      [] v.t = "Str"   -> v.s
      [] v.t = "Bool"  -> IF v.b THEN <<"true">> ELSE <<"false">>
      [] v.t = "Empty" -> <<"empty">>

(* enum ValueError { BinaryOp, UnaryOp, DivisionByZero, InvalidRegex } *)

NoValueError ==
    [left |-> VEmpty, right |-> VEmpty, operator |-> "", message |-> <<>>,
     variant |-> "None", value |-> VEmpty, regex |-> <<>>]
new_binary(l, op, r) ==
    [left |-> l, right |-> r, operator |-> op, message |-> <<>>,
     variant |-> "BinaryOp", value |-> VEmpty, regex |-> <<>>]
new_unary(v, op) ==
    [left |-> VEmpty, right |-> VEmpty, operator |-> op, message |-> <<>>,
     variant |-> "UnaryOp", value |-> v, regex |-> <<>>]
new_division_by_zero(v) ==
    [left |-> VEmpty, right |-> VEmpty, operator |-> "", message |-> <<>>,
     variant |-> "DivisionByZero", value |-> v, regex |-> <<>>]
new_invalid_regex(re, msg) ==
    [left |-> VEmpty, right |-> VEmpty, operator |-> "", message |-> msg,
     variant |-> "InvalidRegex", value |-> VEmpty, regex |-> re]
new_other(msg) ==
    [left |-> VEmpty, right |-> VEmpty, operator |-> "", message |-> msg,
     variant |-> "Other", value |-> VEmpty, regex |-> <<>>]

(* type ValueResult = Result<Value, ValueError>; a panic unwinds instead of returning *)

Ok(v)      == [value |-> v, kind |-> "Ok", error |-> NoValueError, panic |-> ""]
Err(e)     == [value |-> VEmpty, kind |-> "Err", error |-> e, panic |-> ""]
Panic(msg) == [value |-> VEmpty, kind |-> "Panic", error |-> NoValueError, panic |-> msg]
NotCalled  == [value |-> VEmpty, kind |-> "None", error |-> NoValueError, panic |-> ""]

(* i64 arithmetic: the mathematical result n when it fits; otherwise a panic   *)
(* in a build with overflow checks and the two's complement wrap in one without *)
Wrap(n) == ((n - MinInt) % Modulus) + MinInt
Arith(n, msg) ==
    IF n \in Ints THEN Ok(VInt(n))
    ELSE IF overflowChecks THEN Panic(msg)
    ELSE Ok(VInt(Wrap(n)))

----------------------------------------------------------------------------
(* The operator catalog: impl Value *)

not(self) ==
    IF self.t = "Bool" THEN Ok(VBool(~self.b))
    ELSE Err(new_unary(self, "not"))

and(self, other) ==
    IF self.t = "Bool" /\ other.t = "Bool" THEN Ok(VBool(self.b /\ other.b))
    ELSE Err(new_binary(self, "and", other))

(* nand with the body of and *)
nand_BodyOfAnd(self, other) ==
    IF self.t = "Bool" /\ other.t = "Bool" THEN Ok(VBool(self.b /\ other.b))
    ELSE Err(new_binary(self, "nand", other))

nand(self, other) ==
    IF self.t = "Bool" /\ other.t = "Bool" THEN Ok(VBool(~(self.b /\ other.b)))
    ELSE Err(new_binary(self, "nand", other))

or(self, other) ==
    IF self.t = "Bool" /\ other.t = "Bool" THEN Ok(VBool(self.b \/ other.b))
    ELSE Err(new_binary(self, "or", other))

nor(self, other) ==
    IF self.t = "Bool" /\ other.t = "Bool" THEN Ok(VBool(~(self.b \/ other.b)))
    ELSE Err(new_binary(self, "nor", other))

xor(self, other) ==
    IF self.t = "Bool" /\ other.t = "Bool" THEN Ok(VBool(self.b # other.b))
    ELSE Err(new_binary(self, "xor", other))

(* equal without the arms for an Empty right operand *)
equal_NoEmptyArm(self, other) ==
    CASE self.t = "Empty" -> Ok(VBool(other.t = "Empty"))
      [] self.t = other.t -> Ok(VBool(self = other))
      [] OTHER            -> Err(new_binary(self, "=", other))

equal(self, other) ==
    CASE self.t = "Int" ->
           (CASE other.t = "Int"   -> Ok(VBool(self.i = other.i))
              [] other.t = "Empty" -> Ok(VBool(FALSE))
              [] OTHER             -> Err(new_binary(self, "=", other)))
      [] self.t = "Str" ->
           (CASE other.t = "Str"   -> Ok(VBool(self.s = other.s))
              [] other.t = "Empty" -> Ok(VBool(FALSE))
              [] OTHER             -> Err(new_binary(self, "=", other)))
      [] self.t = "Bool" ->
           (CASE other.t = "Bool"  -> Ok(VBool(self.b = other.b))
              [] other.t = "Empty" -> Ok(VBool(FALSE))
              [] OTHER             -> Err(new_binary(self, "=", other)))
      [] self.t = "Empty" ->
           (CASE other.t = "Empty" -> Ok(VBool(TRUE))
              [] OTHER             -> Ok(VBool(FALSE)))

(* not_equal whose Int arm kept the == of equal *)
not_equal_IntArmOfEqual(self, other) ==
    CASE self.t = "Empty" -> Ok(VBool(other.t # "Empty"))
      [] other.t = "Empty" -> Ok(VBool(TRUE))
      [] self.t = "Int" /\ other.t = "Int" -> Ok(VBool(self.i = other.i))
      [] self.t = other.t -> Ok(VBool(self # other))
      [] OTHER -> Err(new_binary(self, "!=", other))

not_equal(self, other) ==
    CASE self.t = "Int" ->
           (CASE other.t = "Int"   -> Ok(VBool(self.i # other.i))
              [] other.t = "Empty" -> Ok(VBool(TRUE))
              [] OTHER             -> Err(new_binary(self, "!=", other)))
      [] self.t = "Str" ->
           (CASE other.t = "Str"   -> Ok(VBool(self.s # other.s))
              [] other.t = "Empty" -> Ok(VBool(TRUE))
              [] OTHER             -> Err(new_binary(self, "!=", other)))
      [] self.t = "Bool" ->
           (CASE other.t = "Bool"  -> Ok(VBool(self.b # other.b))
              [] other.t = "Empty" -> Ok(VBool(TRUE))
              [] OTHER             -> Err(new_binary(self, "!=", other)))
      [] self.t = "Empty" ->
           (CASE other.t = "Empty" -> Ok(VBool(FALSE))
              [] OTHER             -> Ok(VBool(TRUE)))

(* plus whose Int arm subtracts *)
plus_IntArmOfMinus(self, other) ==
    CASE self.t = "Int" /\ other.t = "Int" ->
           Arith(self.i - other.i, "attempt to subtract with overflow")
      [] self.t = "Str" /\ other.t = "Str" -> Ok(VStr(self.s \o other.s))
      [] OTHER -> Err(new_binary(self, "+", other))

plus(self, other) ==
    CASE self.t = "Int" ->
           IF other.t = "Int" THEN Arith(self.i + other.i, "attempt to add with overflow")
           ELSE Err(new_binary(self, "+", other))
      [] self.t = "Str" ->
           IF other.t = "Str" THEN Ok(VStr(self.s \o other.s))
           ELSE Err(new_binary(self, "+", other))
      [] OTHER -> Err(new_binary(self, "+", other))

unary_plus(self) ==
    IF self.t = "Int" THEN Ok(VInt(self.i))
    ELSE Err(new_unary(self, "+"))

minus(self, other) ==
    IF self.t = "Int" /\ other.t = "Int"
    THEN Arith(self.i - other.i, "attempt to subtract with overflow")
    ELSE Err(new_binary(self, "-", other))

(* unary_minus with the body of unary_plus *)
unary_minus_BodyOfUnaryPlus(self) ==
    IF self.t = "Int" THEN Ok(VInt(self.i))
    ELSE Err(new_unary(self, "-"))

unary_minus(self) ==
    IF self.t = "Int" THEN Arith(0 - self.i, "attempt to negate with overflow")
    ELSE Err(new_unary(self, "-"))

multiply(self, other) ==
    IF self.t = "Int" /\ other.t = "Int"
    THEN Arith(self.i * other.i, "attempt to multiply with overflow")
    ELSE Err(new_binary(self, "*", other))

(* the body of divide in the source is that of minus: l - r, and "-" in the error *)
divide(self, other) ==
    IF self.t = "Int" /\ other.t = "Int"
    THEN Arith(self.i - other.i, "attempt to subtract with overflow")
    ELSE Err(new_binary(self, "-", other))

(* Regex::new(r) and Regex::is_match(l) over Chars: "[" opens a character class *)
(* that nothing in Chars can close, "." matches any character, "a" itself;      *)
(* the match is unanchored                                                      *)
RegexCompiles(r) == \A k \in 1..Len(r) : r[k] # "["
RegexIsMatch(r, l) ==
    \E off \in 0..(Len(l) - Len(r)) :
        \A k \in 1..Len(r) : r[k] = "." \/ r[k] = l[off + k]

(* matches compiling the subject and searching the pattern *)
matches_OperandsSwapped(self, other) ==
    IF self.t = "Str" /\ other.t = "Str"
    THEN IF RegexCompiles(self.s) THEN Ok(VBool(RegexIsMatch(self.s, other.s)))
         ELSE Err(new_invalid_regex(self.s, <<"regex parse error">>))
    ELSE Err(new_binary(self, "matches", other))

matches(self, other) ==
    IF self.t = "Str" /\ other.t = "Str"
    THEN IF RegexCompiles(other.s) THEN Ok(VBool(RegexIsMatch(other.s, self.s)))
         ELSE Err(new_invalid_regex(other.s, <<"regex parse error">>))
    ELSE Err(new_binary(self, "matches", other))

----------------------------------------------------------------------------
(* tree.rs: Operator, Literal, Expression *)

Operator == {"Not", "And", "Nand", "Or", "Nor", "Xor", "Equal", "NotEqual",
             "Plus", "Minus", "Multiply", "Divide", "Matches"}

LInt(n)  == [s |-> <<>>, i |-> n, b |-> FALSE, l |-> "Int"]
LStr(x)  == [s |-> x, i |-> 0, b |-> FALSE, l |-> "Str"]
LBool(x) == [s |-> <<>>, i |-> 0, b |-> x, l |-> "Bool"]
LEmpty   == [s |-> <<>>, i |-> 0, b |-> FALSE, l |-> "Empty"]

Identifier(name)     == [name |-> name, node |-> "Identifier"]
Literal(lit)         == [node |-> "Literal", literal |-> lit]
BinaryOp(l, op, r)   == [left |-> l, right |-> r, operator |-> op, node |-> "BinaryOp"]
UnaryOp(e, op)       == [operator |-> op, node |-> "UnaryOp", expression |-> e]

(* impl From<Literal> for Value *)
Value_from(lit) ==
    CASE lit.l = "Int"   -> VInt(lit.i)
      [] lit.l = "Str"   -> VStr(lit.s)
      [] lit.l = "Bool"  -> VBool(lit.b)
      [] lit.l = "Empty" -> VEmpty

(* Variables: a HashMap<String, Value>, here a function from the bound names *)
Variables_new == [n \in {} |-> VEmpty]
(* put leaving an existing binding as it is *)
Variables_put_KeepsExisting(v, name, value) ==
    [n \in (DOMAIN v) \cup {name} |-> IF n \in DOMAIN v THEN v[n] ELSE value]

Variables_put(v, name, value) ==
    [n \in (DOMAIN v) \cup {name} |-> IF n = name THEN value ELSE v[n]]
(* get answering Empty for a name that has no binding *)
Variables_get_EmptyWhenMissing(v, name) ==
    IF name \in DOMAIN v THEN <<v[name]>> ELSE <<VEmpty>>

Variables_get(v, name) ==
    IF name \in DOMAIN v THEN <<v[name]>> ELSE <<>>

(* remove answering whether a binding existed, without removing it *)
Variables_remove_KeepsBinding(v, name) ==
    [values |-> v, removed |-> name \in DOMAIN v]

(* remove(name) -> bool: the Variables after the call and the value returned *)
Variables_remove(v, name) ==
    [values  |-> [n \in (DOMAIN v) \ {name} |-> v[n]],
     removed |-> name \in DOMAIN v]

Variables_count(v) == Cardinality(DOMAIN v)

(* extend keeping the receiver's value on a name both bind *)
Variables_extend_LeftWins(v, other) ==
    [n \in (DOMAIN v) \cup (DOMAIN other) |-> IF n \in DOMAIN v THEN v[n] ELSE other[n]]

(* extend(other): every binding of other is inserted, as by put *)
Variables_extend(v, other) ==
    [n \in (DOMAIN v) \cup (DOMAIN other) |-> IF n \in DOMAIN other THEN other[n] ELSE v[n]]

(* impl Display for Variables: one "key = value\n" per binding that is not   *)
(* Empty, in the order the HashMap iterates, which the caller cannot choose  *)
RECURSIVE Variables_fmt(_, _)
(* Display writing a line for an Empty binding as well *)
Variables_fmt_KeepsEmpty(v, order) ==
    IF order = <<>> THEN <<>>
    ELSE <<Head(order), " = ">> \o Value_fmt(v[Head(order)]) \o <<"\n">>
             \o Variables_fmt(v, Tail(order))

Variables_fmt(v, order) ==
    IF order = <<>> THEN <<>>
    ELSE (IF v[Head(order)].t = "Empty" THEN <<>>
          ELSE <<Head(order), " = ">> \o Value_fmt(v[Head(order)]) \o <<"\n">>)
             \o Variables_fmt(v, Tail(order))

(* show(omit_empty): as Display, skipping Empty bindings only when omit_empty *)
RECURSIVE Variables_show(_, _, _)
Variables_show(v, omit_empty, order) ==
    IF order = <<>> THEN <<>>
    ELSE (IF omit_empty /\ v[Head(order)].t = "Empty" THEN <<>>
          ELSE <<Head(order), " = ">> \o Value_fmt(v[Head(order)]) \o <<"\n">>)
             \o Variables_show(v, omit_empty, Tail(order))

(* the orders a HashMap with the keys of v can iterate in *)
IterationOrders(v) ==
    {o \in [1..Cardinality(DOMAIN v) -> DOMAIN v] :
        \A j, k \in 1..Cardinality(DOMAIN v) : o[j] = o[k] => j = k}

(* enum EvaluationError { UndeclaredIndentifier(String), ValueError(ValueError) } *)
NoEvaluationError ==
    [variant |-> "None", identifier |-> "", value_error |-> NoValueError]
UndeclaredIndentifier(name) ==
    [variant |-> "UndeclaredIndentifier", identifier |-> name, value_error |-> NoValueError]
From_ValueError(e) ==
    [variant |-> "ValueError", identifier |-> "", value_error |-> e]

(* type EvaluationResult = Result<Value, EvaluationError> *)
EvalOk(v)      == [value |-> v, kind |-> "Ok", error |-> NoEvaluationError, panic |-> ""]
EvalErr(e)     == [value |-> VEmpty, kind |-> "Err", error |-> e, panic |-> ""]
EvalPanic(msg) == [value |-> VEmpty, kind |-> "Panic", error |-> NoEvaluationError, panic |-> msg]
NotEvaluated   == [value |-> VEmpty, kind |-> "None", error |-> NoEvaluationError, panic |-> ""]

(* Ok(call?) : the value, or the ValueError converted by From; a panic unwinds *)
Try(r) ==
    CASE r.kind = "Ok"    -> EvalOk(r.value)
      [] r.kind = "Err"   -> EvalErr(From_ValueError(r.error))
      [] r.kind = "Panic" -> EvalPanic(r.panic)

(* the match on the operator of a BinaryOp node *)
apply_binary(op, l, r) ==
    CASE op = "And"      -> Try(and(l, r))
      [] op = "Nand"     -> Try(nand(l, r))
      [] op = "Or"       -> Try(or(l, r))
      [] op = "Nor"      -> Try(nor(l, r))
      [] op = "Xor"      -> Try(xor(l, r))
      [] op = "Equal"    -> Try(equal(l, r))
      [] op = "NotEqual" -> Try(not_equal(l, r))
      [] op = "Plus"     -> Try(plus(l, r))
      [] op = "Minus"    -> Try(minus(l, r))
      [] op = "Multiply" -> Try(multiply(l, r))
      [] op = "Divide"   -> Try(divide(l, r))
      [] op = "Matches"  -> Try(matches(l, r))
      [] OTHER           -> EvalPanic("invalid binary operation")

(* the match on the operator of a UnaryOp node *)
(* the match of a UnaryOp node reporting an error for any other operator *)
apply_unary_ErrForOthers(op, value) ==
    CASE op = "Not"   -> Try(not(value))
      [] op = "Plus"  -> Try(unary_plus(value))
      [] op = "Minus" -> Try(unary_minus(value))
      [] OTHER        -> EvalErr(From_ValueError(new_unary(value, "")))

apply_unary(op, value) ==
    CASE op = "Not"   -> Try(not(value))
      [] op = "Plus"  -> Try(unary_plus(value))
      [] op = "Minus" -> Try(unary_minus(value))
      [] OTHER        -> EvalPanic("invalid unary operation")

RECURSIVE evaluate(_, _, _)

(* evaluate returning after the left operand of every boolean operator, Xor  *)
(* included, when the left operand is Bool(false)                             *)
evaluate_XorShortCircuits(e, v, path) ==
    CASE e.node = "Identifier" ->
           [result |-> IF Variables_get(v, e.name) # <<>>
                       THEN EvalOk(Variables_get(v, e.name)[1])
                       ELSE EvalErr(UndeclaredIndentifier(e.name)),
            log |-> <<path>>, applied |-> <<>>]
      [] e.node = "Literal" ->
           [result |-> EvalOk(Value_from(e.literal)), log |-> <<path>>, applied |-> <<>>]
      [] e.node = "BinaryOp" ->
           LET l == evaluate(e.left, v, Append(path, "left"))
           IN  IF l.result.kind # "Ok"
               THEN [result |-> l.result, log |-> <<path>> \o l.log, applied |-> l.applied]
               ELSE IF e.operator \in {"And", "Nand", "Xor"} /\ l.result.value = VBool(FALSE)
               THEN [result |-> EvalOk(VBool(e.operator = "Nand")),
                     log |-> <<path>> \o l.log, applied |-> l.applied]
               ELSE LET r == evaluate(e.right, v, Append(path, "right"))
                    IN  IF r.result.kind # "Ok"
                        THEN [result |-> r.result, log |-> <<path>> \o l.log \o r.log,
                              applied |-> l.applied \o r.applied]
                        ELSE [result |-> apply_binary(e.operator, l.result.value,
                                                      r.result.value),
                              log |-> <<path>> \o l.log \o r.log,
                              applied |-> l.applied \o r.applied \o <<path>>]
      [] e.node = "UnaryOp" ->
           LET u == evaluate(e.expression, v, Append(path, "expression"))
           IN  IF u.result.kind # "Ok"
               THEN [result |-> u.result, log |-> <<path>> \o u.log, applied |-> u.applied]
               ELSE [result |-> apply_unary(e.operator, u.result.value),
                     log |-> <<path>> \o u.log, applied |-> u.applied \o <<path>>]

(* evaluate walking the left operand of a BinaryOp a second time before the *)
(* right one                                                                *)
evaluate_LeftOperandTwice(e, v, path) ==
    CASE e.node = "Identifier" ->
           [result |-> IF Variables_get(v, e.name) # <<>>
                       THEN EvalOk(Variables_get(v, e.name)[1])
                       ELSE EvalErr(UndeclaredIndentifier(e.name)),
            log |-> <<path>>, applied |-> <<>>]
      [] e.node = "Literal" ->
           [result |-> EvalOk(Value_from(e.literal)), log |-> <<path>>, applied |-> <<>>]
      [] e.node = "BinaryOp" ->
           LET l == evaluate(e.left, v, Append(path, "left"))
           IN  IF l.result.kind # "Ok"
               THEN [result |-> l.result, log |-> <<path>> \o l.log, applied |-> l.applied]
               ELSE LET r == evaluate(e.right, v, Append(path, "right"))
                    IN  IF r.result.kind # "Ok"
                        THEN [result |-> r.result,
                              log |-> <<path>> \o l.log \o l.log \o r.log,
                              applied |-> l.applied \o r.applied]
                        ELSE [result |-> apply_binary(e.operator, l.result.value,
                                                      r.result.value),
                              log |-> <<path>> \o l.log \o l.log \o r.log,
                              applied |-> l.applied \o r.applied \o <<path>>]
      [] e.node = "UnaryOp" ->
           LET u == evaluate(e.expression, v, Append(path, "expression"))
           IN  IF u.result.kind # "Ok"
               THEN [result |-> u.result, log |-> <<path>> \o u.log, applied |-> u.applied]
               ELSE [result |-> apply_unary(e.operator, u.result.value),
                     log |-> <<path>> \o u.log, applied |-> u.applied \o <<path>>]

(* evaluate evaluating the right operand of a BinaryOp before the left one   *)
evaluate_RightOperandFirst(e, v, path) ==
    CASE e.node = "Identifier" ->
           [result |-> IF Variables_get(v, e.name) # <<>>
                       THEN EvalOk(Variables_get(v, e.name)[1])
                       ELSE EvalErr(UndeclaredIndentifier(e.name)),
            log |-> <<path>>, applied |-> <<>>]
      [] e.node = "Literal" ->
           [result |-> EvalOk(Value_from(e.literal)), log |-> <<path>>, applied |-> <<>>]
      [] e.node = "BinaryOp" ->
           LET r == evaluate(e.right, v, Append(path, "right"))
           IN  IF r.result.kind # "Ok"
               THEN [result |-> r.result, log |-> <<path>> \o r.log, applied |-> r.applied]
               ELSE LET l == evaluate(e.left, v, Append(path, "left"))
                    IN  IF l.result.kind # "Ok"
                        THEN [result |-> l.result, log |-> <<path>> \o r.log \o l.log,
                              applied |-> r.applied \o l.applied]
                        ELSE [result |-> apply_binary(e.operator, l.result.value,
                                                      r.result.value),
                              log |-> <<path>> \o r.log \o l.log,
                              applied |-> r.applied \o l.applied \o <<path>>]
      [] e.node = "UnaryOp" ->
           LET u == evaluate(e.expression, v, Append(path, "expression"))
           IN  IF u.result.kind # "Ok"
               THEN [result |-> u.result, log |-> <<path>> \o u.log, applied |-> u.applied]
               ELSE [result |-> apply_unary(e.operator, u.result.value),
                     log |-> <<path>> \o u.log, applied |-> u.applied \o <<path>>]

(* evaluate(e, v), called on the node at `path` below the root: its result,  *)
(* the paths of the nodes it evaluated, in the order it entered them, and the *)
(* paths of the nodes whose match on the operator it reached                  *)
evaluate(e, v, path) ==
    CASE e.node = "Identifier" ->
           [result |-> IF Variables_get(v, e.name) # <<>>
                       THEN EvalOk(Variables_get(v, e.name)[1])
                       ELSE EvalErr(UndeclaredIndentifier(e.name)),
            log |-> <<path>>, applied |-> <<>>]
      [] e.node = "Literal" ->
           [result |-> EvalOk(Value_from(e.literal)), log |-> <<path>>, applied |-> <<>>]
      [] e.node = "BinaryOp" ->
           LET l == evaluate(e.left, v, Append(path, "left"))
           IN  IF l.result.kind # "Ok"
               THEN [result |-> l.result, log |-> <<path>> \o l.log, applied |-> l.applied]
               ELSE LET r == evaluate(e.right, v, Append(path, "right"))
                    IN  IF r.result.kind # "Ok"
                        THEN [result |-> r.result, log |-> <<path>> \o l.log \o r.log,
                              applied |-> l.applied \o r.applied]
                        ELSE [result |-> apply_binary(e.operator, l.result.value,
                                                      r.result.value),
                              log |-> <<path>> \o l.log \o r.log,
                              applied |-> l.applied \o r.applied \o <<path>>]
      [] e.node = "UnaryOp" ->
           LET u == evaluate(e.expression, v, Append(path, "expression"))
           IN  IF u.result.kind # "Ok"
               THEN [result |-> u.result, log |-> <<path>> \o u.log, applied |-> u.applied]
               ELSE [result |-> apply_unary(e.operator, u.result.value),
                     log |-> <<path>> \o u.log, applied |-> u.applied \o <<path>>]

----------------------------------------------------------------------------
(* The inputs of an evaluation *)

Names == {"x", "undeclared"}
LeafLiterals == {LBool(FALSE), LBool(TRUE), LInt(1), LStr(<<"a">>), LEmpty}
Leaves == {Identifier(n) : n \in Names} \cup {Literal(lit) : lit \in LeafLiterals}
(* the leaf beside an operand that is itself an operation *)
Siblings == {Literal(LBool(FALSE)), Identifier("undeclared")}

(* every operator, in either arity, over operands of nesting below d; a binary *)
(* node over leaves takes every pair of them, a deeper one nests on one side   *)
RECURSIVE Expressions(_)
Expressions(d) ==
    IF d = 0 THEN Leaves
    ELSE LET sub == Expressions(d - 1)
             beside == IF d = 1 THEN Leaves ELSE Siblings
         IN  sub \cup {UnaryOp(e, op) : e \in sub, op \in Operator}
                 \cup {BinaryOp(l, op, r) : l \in sub, op \in Operator, r \in beside}
                 \cup {BinaryOp(l, op, r) : l \in beside, op \in Operator, r \in sub}

(* "x" is unbound or bound to one of these; "undeclared" is never bound *)
BoundValues == {VInt(1), VInt(MaxInt), VStr(<<"[">>), VEmpty}
Environments == {Variables_new} \cup {Variables_put(Variables_new, "x", val) : val \in BoundValues}

----------------------------------------------------------------------------
(* Records with typed fields: #[derive(ToVariables, SetFromAssignment)] *)

(* struct Field { name, ty, optional } as parse reads it off a named field *)
Field(name, ty, optional) == [name |-> name, ty |-> ty, optional |-> optional]

(* what a field holds: an i64, a String or a bool, inside an Option when the *)
(* field is optional; the declared type says which component is the payload *)
None         == [s |-> <<>>, i |-> 0, b |-> FALSE, some |-> FALSE]
Some_i64(n)  == [s |-> <<>>, i |-> n, b |-> FALSE, some |-> TRUE]
Some_String(x) == [s |-> x, i |-> 0, b |-> FALSE, some |-> TRUE]
Some_bool(x) == [s |-> <<>>, i |-> 0, b |-> x, some |-> TRUE]

(* the Value variant the generated code wraps a field's payload in *)
put_value(field, value) ==
    CASE field.ty = "Int"  -> VInt(value.i)
      [] field.ty = "Str"  -> VStr(value.s)
      [] field.ty = "Bool" -> VBool(value.b)

(* the payload the generated code takes out of a Value of the field's variant *)
payload(field, value) ==
    CASE field.ty = "Int"  -> Some_i64(value.i)
      [] field.ty = "Str"  -> Some_String(value.s)
      [] field.ty = "Bool" -> Some_bool(value.b)

(* fn to_variables(self) -> Variables: one put per field, in declaration order *)
RECURSIVE to_variables_onto(_, _, _)
(* to_variables leaving out an optional field that holds None *)
to_variables_onto_SkipsNone(self, fields, res) ==
    IF fields = <<>> THEN res
    ELSE LET field == Head(fields)
         IN  to_variables_onto(self, Tail(fields),
                 IF field.optional /\ ~self[field.name].some THEN res
                 ELSE Variables_put(res, field.name, put_value(field, self[field.name])))

to_variables_onto(self, fields, res) ==
    IF fields = <<>> THEN res
    ELSE LET field == Head(fields)
         IN  to_variables_onto(self, Tail(fields),
                 IF field.optional
                 THEN IF self[field.name].some
                      THEN Variables_put(res, field.name, put_value(field, self[field.name]))
                      ELSE Variables_put(res, field.name, VEmpty)
                 ELSE Variables_put(res, field.name, put_value(field, self[field.name])))
to_variables(self, fields) == to_variables_onto(self, fields, Variables_new)

(* Result<(), EvaluationError>, and the struct as the call leaves it *)
SetOk         == [kind |-> "Ok",    error |-> NoEvaluationError, panic |-> ""]
SetErr(e)     == [kind |-> "Err",   error |-> e,                 panic |-> ""]
SetPanic(msg) == [kind |-> "Panic", error |-> NoEvaluationError, panic |-> msg]
NotSet        == [kind |-> "None",  error |-> NoEvaluationError, panic |-> ""]
Materialized  == [kind |-> "ToVariables", error |-> NoEvaluationError, panic |-> ""]

needed_type(field) ==
    CASE field.ty = "Int"  -> "int"
      [] field.ty = "Str"  -> "str"
      [] field.ty = "Bool" -> "bool"

(* match assignment.identifier.as_str() { field => match value { .. }, .. } *)
(* a mismatching non-Empty value stored as if its variant were the field's  *)
assign_NoWrongCase(self, fields, identifier, value) ==
    IF \A k \in 1..Len(fields) : fields[k].name # identifier
    THEN [result |-> SetErr(UndeclaredIndentifier(identifier)), self |-> self]
    ELSE LET field == fields[CHOOSE k \in 1..Len(fields) : fields[k].name = identifier]
         IN  IF value.t = "Empty"
             THEN IF field.optional
                  THEN [result |-> SetOk, self |-> [self EXCEPT ![identifier] = None]]
                  ELSE [result |-> SetErr(From_ValueError(new_other(
                                      <<"variable ", identifier, " cannot be empty">>))),
                        self |-> self]
             ELSE [result |-> SetOk,
                   self |-> [self EXCEPT ![identifier] = payload(field, value)]]

(* the field written before the value's variant is looked at *)
assign_StoresThenFails(self, fields, identifier, value) ==
    IF \A k \in 1..Len(fields) : fields[k].name # identifier
    THEN [result |-> SetErr(UndeclaredIndentifier(identifier)), self |-> self]
    ELSE LET field == fields[CHOOSE k \in 1..Len(fields) : fields[k].name = identifier]
             stored == [self EXCEPT ![identifier] = payload(field, value)]
         IN  IF value.t = field.ty THEN [result |-> SetOk, self |-> stored]
             ELSE IF value.t = "Empty"
             THEN IF field.optional
                  THEN [result |-> SetOk, self |-> [self EXCEPT ![identifier] = None]]
                  ELSE [result |-> SetErr(From_ValueError(new_other(
                                      <<"variable ", identifier, " cannot be empty">>))),
                        self |-> stored]
             ELSE [result |-> SetErr(From_ValueError(new_other(
                                 <<"variable ", identifier, " shoud be of type ",
                                   needed_type(field)>>))),
                   self |-> stored]

(* the arm for Value::Empty left out: Empty falls to the wrong-type arm *)
assign_NoEmptyCase(self, fields, identifier, value) ==
    IF \A k \in 1..Len(fields) : fields[k].name # identifier
    THEN [result |-> SetErr(UndeclaredIndentifier(identifier)), self |-> self]
    ELSE LET field == fields[CHOOSE k \in 1..Len(fields) : fields[k].name = identifier]
         IN  IF value.t = field.ty
             THEN [result |-> SetOk,
                   self |-> [self EXCEPT ![identifier] = payload(field, value)]]
             ELSE [result |-> SetErr(From_ValueError(new_other(
                                 <<"variable ", identifier, " shoud be of type ",
                                   needed_type(field)>>))),
                   self |-> self]

assign(self, fields, identifier, value) ==
    IF \A k \in 1..Len(fields) : fields[k].name # identifier
    THEN [result |-> SetErr(UndeclaredIndentifier(identifier)), self |-> self]
    ELSE LET field == fields[CHOOSE k \in 1..Len(fields) : fields[k].name = identifier]
         IN  IF value.t = field.ty
             THEN [result |-> SetOk,
                   self |-> [self EXCEPT ![identifier] = payload(field, value)]]
             ELSE IF value.t = "Empty"
             THEN IF field.optional
                  THEN [result |-> SetOk, self |-> [self EXCEPT ![identifier] = None]]
                  ELSE [result |-> SetErr(From_ValueError(new_other(
                                      <<"variable ", identifier, " cannot be empty">>))),
                        self |-> self]
             ELSE [result |-> SetErr(From_ValueError(new_other(
                                 <<"variable ", identifier, " shoud be of type ",
                                   needed_type(field)>>))),
                   self |-> self]

(* fn set_from_assignment(&mut self, assignment): the expression is evaluated *)
(* against Variables::new() before the identifier is looked at                *)
set_from_assignment(self, fields, a) ==
    LET value == evaluate(a.expression, Variables_new, <<>>).result
    IN  CASE value.kind = "Panic" -> [result |-> SetPanic(value.panic), self |-> self]
          [] value.kind = "Err"   -> [result |-> SetErr(value.error), self |-> self]
          [] value.kind = "Ok"    -> assign(self, fields, a.identifier, value.value)

(* struct Assignment { identifier, expression } *)
Assignment(identifier, expression) == [expression |-> expression, identifier |-> identifier]

(* the struct the derives are applied to here: every field type, plain and optional *)
RecordFields ==
    <<Field("count", "Int", FALSE), Field("flag", "Bool", FALSE),
      Field("label", "Str", TRUE), Field("limit", "Int", TRUE)>>
RecordInitial ==
    [count |-> Some_i64(0), flag |-> Some_bool(FALSE), label |-> None, limit |-> None]
RecordIdentifiers == {"count", "flag", "label", "limit", "nosuch"}
RecordExpressions ==
    {Literal(LInt(1)), Literal(LBool(TRUE)), Literal(LStr(<<"a">>)), Literal(LEmpty),
     Identifier("x"), UnaryOp(Literal(LInt(1)), "Not"),
     BinaryOp(Literal(LInt(MaxInt)), "Plus", Literal(LInt(1)))}

NoAssignment == Assignment("", Literal(LEmpty))

(* no record is materialized or assigned into *)
RecordIdle ==
    /\ record = RecordInitial
    /\ recordBefore = RecordInitial
    /\ assignment = NoAssignment
    /\ setResult = NotSet
    /\ materialized = Variables_new

----------------------------------------------------------------------------
(* The session of one chat: Session::handle_message *)

(* impl Display for ValueError and for EvaluationError *)
ValueError_fmt(e) ==
    CASE e.variant = "BinaryOp" ->
             <<"unsupported operation ", type_str(e.left), " ", e.operator, " ",
               type_str(e.right)>>
      [] e.variant = "UnaryOp" ->
             <<"unsupported operation ", e.operator, " ", type_str(e.value)>>
      [] e.variant = "DivisionByZero" ->
             <<"division by zero (">> \o Value_fmt(e.value) \o <<" / 0)">>
      [] e.variant = "InvalidRegex" ->
             <<"invalid regex \"">> \o e.regex \o <<"\": ">> \o e.message
      [] e.variant = "Other" -> e.message
EvaluationError_fmt(e) ==
    CASE e.variant = "UndeclaredIndentifier" ->
             <<"undeclared identifier \"", e.identifier, "\"">>
      [] e.variant = "ValueError" -> <<"value error: ">> \o ValueError_fmt(e.value_error)

(* struct Settings: five bool options *)
SettingsFields ==
    <<Field("debug_print", "Bool", FALSE), Field("report_filtered", "Bool", FALSE),
      Field("report_invalid_commands", "Bool", FALSE), Field("filter_enabled", "Bool", FALSE),
      Field("report_command_success", "Bool", FALSE)>>
Settings_default ==
    [debug_print |-> Some_bool(FALSE), report_filtered |-> Some_bool(TRUE),
     report_invalid_commands |-> Some_bool(TRUE), filter_enabled |-> Some_bool(TRUE),
     report_command_success |-> Some_bool(TRUE)]

(* settings.set_from_assignment(&assignment, &variables): as the derive, with *)
(* the expression evaluated against the Variables handed in                   *)
Settings_assign(self, identifier, value) ==
    CASE value.kind = "Panic" -> [result |-> SetPanic(value.panic), self |-> self]
      [] value.kind = "Err" -> [result |-> SetErr(value.error), self |-> self]
      [] value.kind = "Ok"    -> assign(self, SettingsFields, identifier, value.value)
Settings_set_from_assignment(self, a, variables) ==
    Settings_assign(self, a.identifier, evaluate(a.expression, variables, <<>>).result)

(* variables.set_from_assignment(&assignment, &variables): the value of the *)
(* expression against the Variables handed in is put under the identifier   *)
Variables_assign(self, identifier, value) ==
    CASE value.kind = "Panic" -> [result |-> SetPanic(value.panic), self |-> self]
      [] value.kind = "Err" -> [result |-> SetErr(value.error), self |-> self]
      [] value.kind = "Ok"    ->
             [result |-> SetOk, self |-> Variables_put(self, identifier, value.value)]
Variables_set_from_assignment(self, a, variables) ==
    Variables_assign(self, a.identifier, evaluate(a.expression, variables, <<>>).result)

(* struct MessageVariables *)
MessageVariablesFields ==
    <<Field("has_from", "Bool", FALSE), Field("from_id", "Int", TRUE),
      Field("from_is_bot", "Bool", TRUE), Field("from_username", "Str", TRUE),
      Field("from_is_premium", "Bool", TRUE), Field("has_origin", "Bool", FALSE),
      Field("origin_type", "Str", TRUE), Field("origin_user_id", "Int", TRUE),
      Field("origin_user_is_bot", "Bool", TRUE), Field("origin_user_username", "Str", TRUE),
      Field("origin_hidden_user_username", "Str", TRUE), Field("origin_chat_id", "Int", TRUE),
      Field("origin_chat_author_signature", "Str", TRUE),
      Field("origin_channel_id", "Int", TRUE), Field("origin_channel_message_id", "Int", TRUE),
      Field("origin_channel_author_signature", "Str", TRUE),
      Field("has_text", "Bool", FALSE), Field("text", "Str", TRUE),
      Field("has_audio", "Bool", FALSE), Field("has_document", "Bool", FALSE),
      Field("has_animation", "Bool", FALSE), Field("has_game", "Bool", FALSE),
      Field("has_photo", "Bool", FALSE), Field("has_sticker", "Bool", FALSE),
      Field("has_story", "Bool", FALSE), Field("has_video", "Bool", FALSE),
      Field("has_voice", "Bool", FALSE), Field("has_caption", "Bool", FALSE),
      Field("caption", "Str", TRUE)>>
MessageVariablesNames ==
    {MessageVariablesFields[k].name : k \in 1..Len(MessageVariablesFields)}

(* impl Default for MessageVariables: every flag false, every Option None *)
MessageVariablesOptional ==
    {MessageVariablesFields[k].name :
        k \in {j \in 1..Len(MessageVariablesFields) : MessageVariablesFields[j].optional}}
MessageVariables_default ==
    [n \in MessageVariablesNames |->
        IF n \in MessageVariablesOptional THEN None ELSE Some_bool(FALSE)]

(* contains_variable(name): whether the struct has a field of that name *)
contains_variable(fields, name) == \E k \in 1..Len(fields) : fields[k].name = name

(* a message text: whether it starts with '/', its first word up to '@', the *)
(* bot named after '@' ("" for none) and what follows the first whitespace,  *)
(* trimmed ("" for nothing)                                                  *)
Text(slash, word, at, rest) == [slash |-> slash, word |-> word, at |-> at, rest |-> rest]
Text_to_string(text) ==
    (IF text.slash THEN <<"/">> ELSE <<>>) \o <<text.word>>
        \o (IF text.at = "" THEN <<>> ELSE <<"@", text.at>>)
        \o (IF text.rest = "" THEN <<>> ELSE <<" ", text.rest>>)

(* a teloxide Message as far as the session reads it: its id, its text and *)
(* the text of the message it replies to, each present or not              *)
Message(id, text, reply) == [text |-> text, id |-> id, reply |-> reply, handled |-> TRUE]
NoMessage == [text |-> <<>>, id |-> 0, reply |-> <<>>, handled |-> FALSE]

(* impl From<&Message> for MessageVariables, for a message of a text at most *)
MessageVariables_from(text) ==
    IF text = <<>> THEN MessageVariables_default
    ELSE [MessageVariables_default EXCEPT
              !["has_text"] = Some_bool(TRUE),
              !["text"] = Some_String(Text_to_string(text[1]))]

(* enum CommandError and its Display *)
new_invalid_command(command) ==
    [variant |-> "InvalidCommand", command |-> command, argument_is_expected |-> FALSE]
new_invalid_arguments(command, argument_is_expected) ==
    [variant |-> "InvalidArguments", command |-> command,
     argument_is_expected |-> argument_is_expected]
NoCommandError == [variant |-> "None", command |-> "", argument_is_expected |-> FALSE]
CommandError_fmt(e) ==
    IF e.variant = "InvalidCommand" THEN <<"invalid command \"/", e.command, "\"">>
    ELSE IF e.argument_is_expected
         THEN <<"command \"/", e.command, "\" expected an argument">>
         ELSE <<"command \"/", e.command, "\" was not expecting an argument">>

(* type CommandResult = Result<Option<Command>, CommandError> *)
NoCommand == [name |-> "", some |-> FALSE, arg |-> ""]
Command(name, arg) == [name |-> name, some |-> TRUE, arg |-> arg]
CommandOk(c)  == [kind |-> "Ok", error |-> NoCommandError, command |-> c]
CommandErr(e) == [kind |-> "Err", error |-> e, command |-> NoCommand]

WithArgument ==
    [set_filter |-> "SetFilter", set_option |-> "SetOption", set_variable |-> "SetVariable",
     unset_variable |-> "UnsetVariable", eval |-> "Eval"]
WithoutArgument ==
    [get_filter |-> "GetFilter", get_options |-> "GetOptions",
     get_variables |-> "GetVariables", get_message_variables |-> "GetMessageVariables",
     help |-> "Help"]

(* Command::new(text, bot_username) *)
Command_new(text, bot_username) ==
    IF ~text.slash THEN CommandOk(NoCommand)
    ELSE IF text.at # "" /\ text.at # bot_username THEN CommandOk(NoCommand)
    ELSE IF text.word \in DOMAIN WithArgument
         THEN IF text.rest # "" THEN CommandOk(Command(WithArgument[text.word], text.rest))
              ELSE CommandErr(new_invalid_arguments(text.word, TRUE))
    ELSE IF text.word \in DOMAIN WithoutArgument
         THEN IF text.rest = "" THEN CommandOk(Command(WithoutArgument[text.word], ""))
              ELSE CommandErr(new_invalid_arguments(text.word, FALSE))
    ELSE CommandErr(new_invalid_command(text.word))

requires_admin_rights(command) ==
    command.name \in {"SetFilter", "SetOption", "SetVariable", "UnsetVariable"}

(* the grammar's parsers on the argument texts drawn here: Some(tree) or None *)
ExpressionParser_parse(arg) ==
    CASE arg = "x"        -> <<Identifier("x")>>
      [] arg = "has_text" -> <<Identifier("has_text")>>
      [] arg = "text"     -> <<Identifier("text")>>
      [] arg = "not x"    -> <<UnaryOp(Identifier("x"), "Not")>>
      [] OTHER            -> <<>>
AssignmentParser_parse(arg) ==
    CASE arg = "x := true"  -> <<Assignment("x", Literal(LBool(TRUE)))>>
      [] arg = "x := not x" -> <<Assignment("x", UnaryOp(Identifier("x"), "Not"))>>
      [] arg = "y := x"     -> <<Assignment("y", Identifier("x"))>>
      [] arg = "has_text := false" -> <<Assignment("has_text", Literal(LBool(FALSE)))>>
      [] arg = "report_invalid_commands := false" ->
             <<Assignment("report_invalid_commands", Literal(LBool(FALSE)))>>
      [] arg = "report_command_success := x" ->
             <<Assignment("report_command_success", Identifier("x"))>>
      [] arg = "filter_enabled := 1" -> <<Assignment("filter_enabled", Literal(LInt(1)))>>
      [] arg = "filter_enabled := false" ->
             <<Assignment("filter_enabled", Literal(LBool(FALSE)))>>
      [] arg = "debug_print := true" -> <<Assignment("debug_print", Literal(LBool(TRUE)))>>
      [] arg = "debug_print := empty" -> <<Assignment("debug_print", Literal(LEmpty))>>
      [] arg = "nosuch := true" -> <<Assignment("nosuch", Literal(LBool(TRUE)))>>
      [] OTHER -> <<>>
IdentifierParser_parse(arg) ==
    CASE arg \in {"x", "y", "has_text", "nosuch"} -> <<arg>>
      [] OTHER -> <<>>

(* enum SendUpdate; a text rendered off a HashMap is kept as the set of its *)
(* lines, the order of which the HashMap decides                            *)
SendMessage(text)     == [kind |-> "Message", text |-> text, id |-> 0, lines |-> {}]
SendLines(lines)      == [kind |-> "Message", text |-> <<>>, id |-> 0, lines |-> lines]
DeleteMessage(id)     == [kind |-> "DeleteMessage", text |-> <<>>, id |-> id, lines |-> {}]
Variables_lines(v, omit_empty) ==
    {<<n, " = ">> \o Value_fmt(v[n]) \o <<"\n">> :
        n \in {m \in DOMAIN v : ~(omit_empty /\ v[m].t = "Empty")}}

(* struct Chat { filter, settings, variables }; Filter { text, expression } *)
Filter_new(text, expression) == [expression |-> expression, text |-> text]
Chat_default == [variables |-> Variables_new, filter |-> <<>>, settings |-> Settings_default]

(* what the match on the command leaves behind *)
Handled(c, res, command_failed, command_requires_success_report) ==
    [result |-> res, chat |-> c, panic |-> "",
     command_failed |-> command_failed,
     command_requires_success_report |-> command_requires_success_report,
     is_valid_command |-> TRUE]
NotHandled(c, res) ==
    [result |-> res, chat |-> c, panic |-> "",
     command_failed |-> FALSE, command_requires_success_report |-> FALSE,
     is_valid_command |-> FALSE]
Unwinds(c, msg) ==
    [result |-> <<>>, chat |-> c, panic |-> msg,
     command_failed |-> FALSE, command_requires_success_report |-> FALSE,
     is_valid_command |-> TRUE]
SetFilter(c, arg) ==
    LET parsed == ExpressionParser_parse(arg)
    IN  IF parsed # <<>>
        THEN Handled([c EXCEPT !.filter = <<Filter_new(arg, parsed[1])>>], <<>>, FALSE, TRUE)
        ELSE Handled(c, <<SendMessage(<<"parse error: ", arg>>)>>, TRUE, TRUE)

GetFilter(c) ==
    IF c.filter # <<>> THEN Handled(c, <<SendMessage(<<c.filter[1].text>>)>>, FALSE, FALSE)
    ELSE Handled(c, <<SendMessage(<<"no filter set">>)>>, TRUE, FALSE)

(* if let Err(e) = set_from_assignment(..) { .. }: what the call leaves is reported *)
OptionSet(c, set) ==
    CASE set.result.kind = "Panic" -> Unwinds(c, set.result.panic)
      [] set.result.kind = "Err" ->
             Handled([c EXCEPT !.settings = set.self],
                     <<SendMessage(<<"failed to set option: ">>
                                       \o EvaluationError_fmt(set.result.error))>>,
                     TRUE, TRUE)
      [] set.result.kind = "Ok" ->
             Handled([c EXCEPT !.settings = set.self], <<>>, FALSE, TRUE)
VariableSet(c, set) ==
    CASE set.result.kind = "Panic" -> Unwinds(c, set.result.panic)
      [] set.result.kind = "Err" ->
             Handled([c EXCEPT !.variables = set.self],
                     <<SendMessage(<<"failed to set variable: ">>
                                       \o EvaluationError_fmt(set.result.error))>>,
                     TRUE, TRUE)
      [] set.result.kind = "Ok" ->
             Handled([c EXCEPT !.variables = set.self], <<>>, FALSE, TRUE)
Evaluated(c, value) ==
    CASE value.kind = "Panic" -> Unwinds(c, value.panic)
      [] value.kind = "Err" ->
             Handled(c, <<SendMessage(<<"error: failed to evalute expression: ">>
                                          \o EvaluationError_fmt(value.error))>>,
                     TRUE, FALSE)
      [] value.kind = "Ok" ->
             Handled(c, <<SendMessage(Value_fmt(value.value))>>, FALSE, FALSE)

SetOption(c, arg) ==
    LET parsed == AssignmentParser_parse(arg)
    IN  IF parsed = <<>>
        THEN Handled(c, <<SendMessage(<<"parse error: ", arg>>)>>, TRUE, TRUE)
        ELSE OptionSet(c, Settings_set_from_assignment(c.settings, parsed[1], c.variables))

GetOptions(c) ==
    Handled(c, <<SendLines(Variables_lines(to_variables(c.settings, SettingsFields), FALSE))>>,
            FALSE, FALSE)

(* set_variable storing under a reserved name as under any other *)
SetVariable_NoReservedNames(c, arg) ==
    LET parsed == AssignmentParser_parse(arg)
    IN  IF parsed = <<>>
        THEN Handled(c, <<SendMessage(<<"parse error: ", arg>>)>>, TRUE, TRUE)
        ELSE VariableSet(c, Variables_set_from_assignment(c.variables, parsed[1],
                                                                 c.variables))

(* set_variable evaluating against an empty Variables instead of a clone *)
SetVariable_EvaluatesAgainstEmpty(c, arg) ==
    LET parsed == AssignmentParser_parse(arg)
    IN  IF parsed = <<>>
        THEN Handled(c, <<SendMessage(<<"parse error: ", arg>>)>>, TRUE, TRUE)
        ELSE IF contains_variable(MessageVariablesFields, parsed[1].identifier)
        THEN Handled(c, <<SendMessage(<<"failed to set variable: \"", parsed[1].identifier,
                                        "\" is reserved">>)>>, TRUE, TRUE)
        ELSE VariableSet(c, Variables_set_from_assignment(c.variables, parsed[1],
                                                                 Variables_new))

SetVariable(c, arg) ==
    LET parsed == AssignmentParser_parse(arg)
    IN  IF parsed = <<>>
        THEN Handled(c, <<SendMessage(<<"parse error: ", arg>>)>>, TRUE, TRUE)
        ELSE IF contains_variable(MessageVariablesFields, parsed[1].identifier)
        THEN Handled(c, <<SendMessage(<<"failed to set variable: \"", parsed[1].identifier,
                                        "\" is reserved">>)>>, TRUE, TRUE)
        ELSE VariableSet(c, Variables_set_from_assignment(c.variables, parsed[1],
                                                                 c.variables))

UnsetVariable(c, arg) ==
    LET parsed == IdentifierParser_parse(arg)
        removed == Variables_remove(c.variables, parsed[1])
    IN  IF parsed = <<>>
        THEN Handled(c, <<SendMessage(<<"parse error: ", arg>>)>>, TRUE, TRUE)
        ELSE IF ~removed.removed
        THEN Handled([c EXCEPT !.variables = removed.values],
                     <<SendMessage(<<"variable \"", parsed[1], "\" does not exist">>)>>,
                     TRUE, TRUE)
        ELSE Handled([c EXCEPT !.variables = removed.values], <<>>, FALSE, TRUE)

GetVariables(c) ==
    IF Variables_count(c.variables) > 0
    THEN Handled(c, <<SendLines(Variables_lines(c.variables, FALSE))>>, FALSE, FALSE)
    ELSE Handled(c, <<SendMessage(<<"no variables">>)>>, TRUE, FALSE)

GetMessageVariables(c, reply) ==
    IF reply # <<>>
    THEN Handled(c, <<SendLines(Variables_lines(
                          to_variables(MessageVariables_from(reply), MessageVariablesFields),
                          TRUE))>>, FALSE, FALSE)
    ELSE Handled(c, <<SendMessage(<<"error: no reply message">>)>>, TRUE, FALSE)

Eval(c, arg) ==
    LET parsed == ExpressionParser_parse(arg)
    IN  IF parsed = <<>>
        THEN Handled(c, <<SendMessage(<<"parse error: ", arg>>)>>, TRUE, FALSE)
        ELSE Evaluated(c, evaluate(parsed[1], c.variables, <<>>).result)

Help(c) == Handled(c, <<SendMessage(<<"HELP_STRING">>)>>, FALSE, FALSE)

(* match command { .. } *)
execute(c, command, m) ==
    CASE command.name = "SetFilter"           -> SetFilter(c, command.arg)
      [] command.name = "GetFilter"           -> GetFilter(c)
      [] command.name = "SetOption"           -> SetOption(c, command.arg)
      [] command.name = "GetOptions"          -> GetOptions(c)
      [] command.name = "SetVariable"         -> SetVariable(c, command.arg)
      [] command.name = "UnsetVariable"       -> UnsetVariable(c, command.arg)
      [] command.name = "GetVariables"        -> GetVariables(c)
      [] command.name = "GetMessageVariables" -> GetMessageVariables(c, m.reply)
      [] command.name = "Eval"                -> Eval(c, command.arg)
      [] command.name = "Help"                -> Help(c)

BotUsername == "me"

(* match message.text() { .. }: the command, if the text is one *)
(* the check of the sender's rights left out *)
dispatch_NoRightsCheck(c, m, from_admin) ==
    IF m.text = <<>> THEN NotHandled(c, <<>>)
    ELSE LET command == Command_new(m.text[1], BotUsername)
         IN  IF command.kind = "Err"
             THEN NotHandled(c, <<SendMessage(<<"error: ">>
                                      \o CommandError_fmt(command.error))>>)
             ELSE IF ~command.command.some THEN NotHandled(c, <<>>)
             ELSE execute(c, command.command, m)

dispatch(c, m, from_admin) ==
    IF m.text = <<>> THEN NotHandled(c, <<>>)
    ELSE LET command == Command_new(m.text[1], BotUsername)
         IN  IF command.kind = "Err"
             THEN NotHandled(c, <<SendMessage(<<"error: ">>
                                      \o CommandError_fmt(command.error))>>)
             ELSE IF ~command.command.some THEN NotHandled(c, <<>>)
             ELSE IF requires_admin_rights(command.command) /\ ~from_admin
             THEN NotHandled(c, <<SendMessage(<<"error: permission denied">>)>>)
             ELSE execute(c, command.command, m)

(* the filter applied to a message that is no valid command, its errors *)
(* reported whatever debug_print holds                                 *)
Filtered_AlwaysReports(c, m, value) ==
    CASE value.kind = "Panic" -> [result |-> <<>>, panic |-> value.panic]
      [] value.kind = "Err" ->
             [result |-> <<SendMessage(<<"error: failed to evaluate filter: ">>
                                           \o EvaluationError_fmt(value.error))>>,
              panic |-> ""]
      [] value.kind = "Ok" /\ value.value.t = "Bool" ->
             [result |-> IF value.value.b
                         THEN <<DeleteMessage(m.id)>>
                                  \o (IF c.settings["report_filtered"].b
                                      THEN <<SendMessage(<<"message filtered">>)>>
                                      ELSE <<>>)
                         ELSE <<>>,
              panic |-> ""]
      [] OTHER ->
             [result |-> <<SendMessage(<<"error: filter evaluated to non-bool value">>)>>,
              panic |-> ""]

(* the filter applied to a message that is no valid command *)
Filtered(c, m, value) ==
    CASE value.kind = "Panic" -> [result |-> <<>>, panic |-> value.panic]
      [] value.kind = "Err" ->
             [result |-> IF c.settings["debug_print"].b
                         THEN <<SendMessage(<<"error: failed to evaluate filter: ">>
                                                \o EvaluationError_fmt(value.error))>>
                         ELSE <<>>,
              panic |-> ""]
      [] value.kind = "Ok" /\ value.value.t = "Bool" ->
             [result |-> IF value.value.b
                         THEN <<DeleteMessage(m.id)>>
                                  \o (IF c.settings["report_filtered"].b
                                      THEN <<SendMessage(<<"message filtered">>)>>
                                      ELSE <<>>)
                         ELSE <<>>,
              panic |-> ""]
      [] OTHER ->
             [result |-> IF c.settings["debug_print"].b
                         THEN <<SendMessage(<<"error: filter evaluated to non-bool value">>)>>
                         ELSE <<>>,
              panic |-> ""]
apply_filter(c, m) ==
    IF c.filter = <<>> THEN [result |-> <<>>, panic |-> ""]
    ELSE Filtered(c, m,
                  evaluate(c.filter[1].expression,
                           Variables_extend(
                               to_variables(MessageVariables_from(m.text),
                                            MessageVariablesFields),
                               c.variables),
                           <<>>).result)

(* "success" pushed whatever report_command_success holds *)
success_report_IgnoresSetting(d) ==
    IF /\ d.is_valid_command
       /\ d.command_requires_success_report
       /\ ~d.command_failed
    THEN <<SendMessage(<<"success">>)>>
    ELSE <<>>

(* the "success" of a command that asks for the report *)
success_report(d) ==
    IF /\ d.is_valid_command
       /\ d.command_requires_success_report
       /\ ~d.command_failed
       /\ d.chat.settings["report_command_success"].b
    THEN <<SendMessage(<<"success">>)>>
    ELSE <<>>

Returned(d, filtered) ==
    IF d.panic # "" THEN [result |-> <<>>, chat |-> d.chat, panic |-> d.panic]
    ELSE IF filtered.panic # ""
    THEN [result |-> <<>>, chat |-> d.chat, panic |-> filtered.panic]
    ELSE [result |-> d.result \o success_report(d) \o filtered.result, chat |-> d.chat,
          panic |-> ""]

(* the filter applied to a message that was executed as a command too *)
Dispatched_FiltersCommands(d, m) ==
    Returned(d, IF d.chat.settings["filter_enabled"].b
                THEN apply_filter(d.chat, m)
                ELSE [result |-> <<>>, panic |-> ""])

(* the filter runs on the messages that are no valid command *)
Dispatched(d, m) ==
    Returned(d, IF ~d.is_valid_command /\ d.chat.settings["filter_enabled"].b
                THEN apply_filter(d.chat, m)
                ELSE [result |-> <<>>, panic |-> ""])

(* handle_message(message, from_admin): the chat and the updates it leaves *)
handle_message(c, m, from_admin) == Dispatched(dispatch(c, m, from_admin), m)

NotCalledYet == [result |-> <<>>, panic |-> ""]

(* the messages handed to handle_message, each with the sender's rights *)
AdminTexts ==
    {Text(TRUE, "set_filter", "", rest) : rest \in {"", "x", "has_text", "text", "("}}
      \cup {Text(TRUE, "get_filter", "", rest) : rest \in {"", "x"}}
      \cup {Text(TRUE, "set_option", "", rest) :
                rest \in {"(", "report_invalid_commands := false",
                          "report_command_success := x", "filter_enabled := 1",
                          "filter_enabled := false", "debug_print := true",
                          "debug_print := empty", "nosuch := true"}}
      \cup {Text(TRUE, "set_variable", "", rest) :
                rest \in {"(", "x := true", "x := not x", "y := x", "has_text := false"}}
      \cup {Text(TRUE, "unset_variable", "", rest) : rest \in {"(", "x", "y"}}
      \cup {Text(TRUE, word, "", "") :
                word \in {"get_options", "get_variables", "get_message_variables",
                          "help", "nosuch"}}
      \cup {Text(TRUE, "eval", "", "x"), Text(TRUE, "help", "other", ""),
            Text(TRUE, "set_filter", "me", "x"), Text(FALSE, "hello", "", "")}
OthersTexts ==
    {Text(TRUE, "set_filter", "", "x"),
     Text(TRUE, "set_option", "", "report_invalid_commands := false"),
     Text(TRUE, "set_variable", "", "x := true"), Text(TRUE, "unset_variable", "", "x"),
     Text(TRUE, "eval", "", "x"), Text(TRUE, "get_variables", "", ""),
     Text(TRUE, "nosuch", "", ""), Text(FALSE, "hello", "", "")}
SessionCalls ==
    {[m |-> Message(1, <<text>>, <<>>), from_admin |-> TRUE] : text \in AdminTexts}
      \cup {[m |-> Message(1, <<text>>, <<>>), from_admin |-> FALSE] : text \in OthersTexts}
      \cup {[m |-> Message(1, <<>>, <<>>), from_admin |-> FALSE],
            [m |-> Message(1, <<Text(TRUE, "get_message_variables", "", "")>>,
                           <<Text(FALSE, "hello", "", "")>>),
             from_admin |-> FALSE]}

(* no message is handled *)
SessionIdle ==
    /\ chat = Chat_default
    /\ chatBefore = Chat_default
    /\ message = [m |-> NoMessage, from_admin |-> FALSE]
    /\ updates = NotCalledYet

----------------------------------------------------------------------------
(* The process: main's sessions map, the database and the two locks *)

ChatIds == {1, 2}
Handlers == {1, 2}

(* Duration::from_secs(600) and Duration::from_secs(60) of the cleanup routine *)
timeout_duration == 600
cleanup_interval == 60
(* the instants the clock is read at *)
Instants == {0, timeout_duration, timeout_duration + cleanup_interval}

(* tokio::sync::Mutex: lock().await queues the task, the lock is handed to the *)
(* tasks in the order they asked for it, dropping the guard frees it           *)
Mutex_new == [holder |-> <<>>, waiters |-> <<>>]
Mutex_lock(mutex, t) == [mutex EXCEPT !.waiters = Append(@, t)]
Mutex_ready_Unlocked(mutex, t) == mutex.waiters # <<>> /\ Head(mutex.waiters) = t
Mutex_ready(mutex, t) ==
    mutex.holder = <<>> /\ mutex.waiters # <<>> /\ Head(mutex.waiters) = t
Mutex_acquire(mutex, t) == [holder |-> <<t>>, waiters |-> Tail(mutex.waiters)]
Mutex_drop_Leaks(mutex) == mutex
Mutex_drop(mutex) == [mutex EXCEPT !.holder = <<>>]

(* struct Chat as the chats collection holds it, and read back *)
Document(chat_id, c) ==
    [variables |-> c.variables, filter |-> c.filter, settings |-> c.settings,
     chat_id |-> chat_id]
Chat_of(document) ==
    [variables |-> document.variables, filter |-> document.filter,
     settings |-> document.settings]

(* Db::find_chat_by_id: the chat stored for the id; when none is, a default *)
(* one is stored first; found and inserted tell whether find_one and        *)
(* insert_one returned Ok                                                   *)
find_chat_by_id(db, chat_id, found, inserted) ==
    IF ~found THEN [result |-> "Err", chat |-> Chat_default, database |-> db]
    ELSE IF db[chat_id] # <<>>
    THEN [result |-> "Ok", chat |-> Chat_of(db[chat_id][1]), database |-> db]
    ELSE IF ~inserted THEN [result |-> "Err", chat |-> Chat_default, database |-> db]
    ELSE [result |-> "Ok", chat |-> Chat_default,
          database |-> [db EXCEPT ![chat_id] = <<Document(chat_id, Chat_default)>>]]

(* the chat stored with the filter it had *)
insert_chat_KeepsFilter(db, chat_id, c, replaced) ==
    IF ~replaced THEN [result |-> "Err", database |-> db]
    ELSE [result |-> "Ok",
          database |->
              [db EXCEPT ![chat_id] =
                  <<Document(chat_id,
                             IF db[chat_id] = <<>> THEN c
                             ELSE [c EXCEPT !.filter = db[chat_id][1].filter])>>]]

(* Db::insert_chat: replace_one with upsert; replaced tells whether it returned Ok *)
insert_chat(db, chat_id, c, replaced) ==
    IF ~replaced THEN [result |-> "Err", database |-> db]
    ELSE [result |-> "Ok", database |-> [db EXCEPT ![chat_id] = <<Document(chat_id, c)>>]]

(* struct Session, and Session::new once find_chat_by_id returned the chat *)
Session(chat_id, c, instant) == [chat |-> c, chat_id |-> chat_id, last_active |-> instant]

(* Session::is_timed_out *)
is_timed_out(session, instant, timeout) == instant - session.last_active > timeout

(* a handler task of teloxide::repl: where it stands, the chat of its message *)
(* and the updates it still has to send                                       *)
Task(pc, chat_id, pending) == [updates |-> pending, chat_id |-> chat_id, pc |-> pc]
TaskIdle == Task("idle", 0, <<>>)

(* the messages the handlers are called with *)
MainMessages ==
    {Message(1, <<text>>, <<>>) :
        text \in {Text(TRUE, "set_filter", "", "has_text"), Text(FALSE, "hello", "", "")}}

(* main has built the sessions map and the database and spawned the task of *)
(* the cleanup routine; no message has arrived                              *)
MainStarted ==
    /\ sessions = [c \in ChatIds |-> <<>>]
    /\ sessionsLock = Mutex_new
    /\ databaseLock = Mutex_new
    /\ tasks = [t \in Handlers |-> TaskIdle]
    /\ cleanup = "spawned"
    /\ lastCall = [c \in ChatIds |-> ""]
MainIdle ==
    /\ MainStarted
    /\ database = [c \in ChatIds |-> <<>>]
    /\ now = 0

(* migrations::get_vec: the names of the migration actions, in list order *)
get_vec == <<"move_filter_enabled_to_settings", "add_report_command_success_to_settings">>
MaxStartups == 3

(* a migration action that was run: its name, whether it returned Ok and the *)
(* startup it ran in                                                         *)
Run(name, ok, count) == [startup |-> count, name |-> name, ok |-> ok]

(* one pass of the loop of migrate with the name recorded before its action ran *)
migrate_pass_RecordsFirst(recorded, name, count, found, ran, inserted) ==
    IF ~found THEN [result |-> "Err", migrations |-> recorded, runs |-> <<>>]
    ELSE IF name \in recorded
    THEN [result |-> "Ok", migrations |-> recorded, runs |-> <<>>]
    ELSE IF ~inserted
    THEN [result |-> "Err", migrations |-> recorded, runs |-> <<>>]
    ELSE [result |-> IF ran THEN "Ok" ELSE "Err", migrations |-> recorded \cup {name},
          runs |-> <<Run(name, ran, count)>>]

(* one pass of the loop of migrate, for the action of a name: found, ran and *)
(* inserted tell whether find_one, the action and insert_one returned Ok     *)
migrate_pass(recorded, name, count, found, ran, inserted) ==
    IF ~found THEN [result |-> "Err", migrations |-> recorded, runs |-> <<>>]
    ELSE IF name \in recorded
    THEN [result |-> "Ok", migrations |-> recorded, runs |-> <<>>]
    ELSE IF ~ran
    THEN [result |-> "Err", migrations |-> recorded, runs |-> <<Run(name, FALSE, count)>>]
    ELSE IF ~inserted
    THEN [result |-> "Err", migrations |-> recorded, runs |-> <<Run(name, TRUE, count)>>]
    ELSE [result |-> "Ok", migrations |-> recorded \cup {name},
          runs |-> <<Run(name, TRUE, count)>>]

(* Db::new: which startup this is, the position of migrate in the list (0 *)
(* outside the loop) and how far the startup got                          *)
Startup(count, position, state) == [count |-> count, position |-> position, state |-> state]

(* the process was never started on this database *)
MigrateIdle ==
    /\ migrations = {}
    /\ runs = <<>>
    /\ startup = Startup(0, 0, "down")

(* a teloxide Message as far as the variables are derived from it: its sender, *)
(* the origin it was forwarded from, the one kind of media it carries (its     *)
(* text is one) and its caption, each present or not                           *)
User(username) == [id |-> 1, username |-> username, is_bot |-> FALSE, is_premium |-> TRUE]
MessageOrigin(variant, name) == [variant |-> variant, name |-> name]
NotForwarded == MessageOrigin("None", <<>>)
Telegram(from, origin, media, caption) ==
    [from |-> from, origin |-> origin, media |-> media, caption |-> caption]
MediaFlags ==
    {"audio", "document", "animation", "game", "photo", "sticker", "story", "video", "voice"}
Captioned == {"audio", "document", "animation", "photo", "video", "voice"}
OptionalNames == {<<>>, <<<<"a">>>>}
Senders == {<<>>} \cup {<<User(username)>> : username \in OptionalNames}
Origins ==
    {NotForwarded, MessageOrigin("HiddenUser", <<<<"a">>>>)}
      \cup {MessageOrigin(variant, name) :
               variant \in {"User", "Chat", "Channel"}, name \in OptionalNames}
Telegrams ==
    {m \in [from : Senders, origin : Origins, media : MediaFlags \cup {"text", "contact"},
            caption : OptionalNames] :
        m.caption # <<>> => m.media \in Captioned}

(* what the two conversions of a Message insert after their defaults: they  *)
(* take the same branches, for the sender, the origin, the text, the media   *)
(* and the caption, and differ in how a payload is wrapped (a Value, or the  *)
(* Some of a field) and in the key of the origin's is_bot                    *)
HasFlag ==
    [document |-> "has_document", audio |-> "has_audio", animation |-> "has_animation",
     game |-> "has_game", photo |-> "has_photo", sticker |-> "has_sticker",
     story |-> "has_story", video |-> "has_video", voice |-> "has_voice"]
Nothing == [n \in {} |-> FALSE]
OptionalInsert(key, name) == IF name = <<>> THEN Nothing ELSE key :> VStr(name[1])
FromInserts(m) ==
    IF m.from = <<>> THEN Nothing
    ELSE ("has_from" :> VBool(TRUE)) @@ ("from_id" :> VInt(m.from[1].id))
           @@ ("from_is_bot" :> VBool(m.from[1].is_bot))
           @@ OptionalInsert("from_username", m.from[1].username)
           @@ ("from_is_premium" :> VBool(m.from[1].is_premium))
OriginInserts(m, user_bot) ==
    CASE m.origin.variant = "None" -> Nothing
      [] m.origin.variant = "User" ->
             ("has_origin" :> VBool(TRUE)) @@ ("origin_type" :> VStr(<<"user">>))
               @@ ("origin_user_id" :> VInt(1)) @@ (user_bot :> VBool(FALSE))
               @@ OptionalInsert("origin_user_username", m.origin.name)
      [] m.origin.variant = "HiddenUser" ->
             ("has_origin" :> VBool(TRUE)) @@ ("origin_type" :> VStr(<<"hidden_user">>))
               @@ ("origin_hidden_user_username" :> VStr(m.origin.name[1]))
      [] m.origin.variant = "Chat" ->
             ("has_origin" :> VBool(TRUE)) @@ ("origin_type" :> VStr(<<"chat">>))
               @@ ("origin_chat_id" :> VInt(1))
               @@ OptionalInsert("origin_chat_author_signature", m.origin.name)
      [] m.origin.variant = "Channel" ->
             ("has_origin" :> VBool(TRUE)) @@ ("origin_type" :> VStr(<<"channel">>))
               @@ ("origin_channel_id" :> VInt(1)) @@ ("origin_channel_message_id" :> VInt(1))
               @@ OptionalInsert("origin_channel_author_signature", m.origin.name)
ContentInserts(m) ==
    (IF m.media = "text" THEN ("has_text" :> VBool(TRUE)) @@ ("text" :> VStr(<<"a">>))
     ELSE Nothing)
      @@ (IF m.media \in MediaFlags THEN HasFlag[m.media] :> VBool(TRUE) ELSE Nothing)
      @@ (IF m.caption = <<>> THEN Nothing
          ELSE ("has_caption" :> VBool(TRUE)) @@ ("caption" :> VStr(m.caption[1])))
Overridden(self, inserts) ==
    [n \in (DOMAIN self) \cup (DOMAIN inserts) |->
        IF n \in DOMAIN inserts THEN inserts[n] ELSE self[n]]

(* impl From<&Message> for Variables: has_from, has_origin, has_text and *)
(* has_caption are put as false and every other name as Empty, then the  *)
(* parts present are put                                                 *)
PutFalse == {"has_from", "has_origin", "has_text", "has_caption"}
PutEmpty ==
    {"from_id", "from_is_bot", "from_username", "from_is_premium", "origin_type",
     "origin_user_id", "origin_user_bot", "origin_user_username",
     "origin_hidden_user_username", "origin_chat_id", "origin_chat_author_signature",
     "origin_channel_id", "origin_channel_message_id", "origin_channel_author_signature",
     "text", "has_audio", "has_document", "has_animation", "has_game", "has_photo",
     "has_sticker", "has_story", "has_video", "has_voice", "caption"}
Variables_from(m) ==
    Overridden([n \in PutFalse \cup PutEmpty |-> IF n \in PutFalse THEN VBool(FALSE) ELSE VEmpty],
               FromInserts(m) @@ OriginInserts(m, "origin_user_bot") @@ ContentInserts(m))

(* impl From<&Message> for MessageVariables: the default with the parts *)
(* present assigned                                                     *)
Some_of(value) ==
    CASE value.t = "Int" -> Some_i64(value.i)
      [] value.t = "Str" -> Some_String(value.s)
      [] value.t = "Bool" -> Some_bool(value.b)
Assigned_of(inserts) == [n \in DOMAIN inserts |-> Some_of(inserts[n])]
MessageVariables_of(m) ==
    Overridden(MessageVariables_default,
               Assigned_of(FromInserts(m) @@ OriginInserts(m, "origin_user_is_bot")
                             @@ ContentInserts(m)))

(* the two Variables derived from a message: by From<&Message> for Variables *)
(* and through MessageVariables and its to_variables                         *)
Derived(direct, through) == [direct |-> direct, through |-> through]
NoTelegram == Telegram(<<>>, NotForwarded, "contact", <<>>)

(* no message has its variables derived *)
MessageIdle ==
    /\ telegram = NoTelegram
    /\ derived = Derived(Variables_new, Variables_new)

ProcessIdle ==
    /\ MainIdle
    /\ MigrateIdle
    /\ MessageIdle

----------------------------------------------------------------------------
(* Calls of the operator functions on a pair of operands *)

UnaryNames == {"not", "unary_plus", "unary_minus"}
BinaryNames == {"and", "nand", "or", "nor", "xor", "equal", "not_equal",
                "plus", "minus", "multiply", "divide", "matches"}

(* no evaluation takes part in a call of an operator function *)
EvalIdle ==
    /\ expr = Literal(LEmpty)
    /\ vars = Variables_new
    /\ evaluated = FALSE
    /\ reevaluated = FALSE
    /\ result = NotEvaluated
    /\ log = <<>>
    /\ applied = <<>>

(* no operator function is called on its own *)
OpsIdle ==
    /\ left = VEmpty
    /\ right = VEmpty
    /\ operator = "none"
    /\ outcome = NotCalled

(* the names and values the calls on a Variables draw from *)
StoreNames == {"x", "y"}
StoreValues == {VInt(1), VBool(TRUE), VEmpty}
Others == {Variables_new,
           Variables_put(Variables_new, "x", VBool(TRUE)),
           Variables_put(Variables_put(Variables_new, "x", VEmpty), "y", VInt(1))}

StoreOrders == UNION {IterationOrders([n \in S |-> VEmpty]) : S \in SUBSET StoreNames}

NotRendered == [order |-> <<>>, display |-> <<>>, show_true |-> <<>>, show_false |-> <<>>]

NoCall == [value |-> VEmpty, other |-> Variables_new, name |-> "", fn |-> "none"]

(* no Variables is put into, removed from or extended *)
StoreIdle ==
    /\ store = Variables_new
    /\ before = Variables_new
    /\ call = NoCall
    /\ returned = FALSE
    /\ lastPut = [n \in StoreNames |-> <<>>]
    /\ rendered = NotRendered

InitOps ==
    /\ overflowChecks \in BOOLEAN
    /\ left \in Values
    /\ right \in Values
    /\ operator = "none"
    /\ outcome = NotCalled
    /\ EvalIdle
    /\ StoreIdle
    /\ RecordIdle
    /\ SessionIdle
    /\ ProcessIdle

Call(name, res) ==
    /\ operator = "none"
    /\ operator' = name
    /\ outcome' = res
    /\ UNCHANGED <<overflowChecks, left, right, evalVars, storeVars, recordVars, sessionVars,
                   processVars>>

CallNot        == Call("not", not(left))
CallAnd        == Call("and", and(left, right))
CallNand       == Call("nand", nand(left, right))
CallOr         == Call("or", or(left, right))
CallNor        == Call("nor", nor(left, right))
CallXor        == Call("xor", xor(left, right))
CallEqual      == Call("equal", equal(left, right))
CallNotEqual   == Call("not_equal", not_equal(left, right))
CallPlus       == Call("plus", plus(left, right))
CallUnaryPlus  == Call("unary_plus", unary_plus(left))
CallMinus      == Call("minus", minus(left, right))
CallUnaryMinus == Call("unary_minus", unary_minus(left))
CallMultiply   == Call("multiply", multiply(left, right))
CallDivide     == Call("divide", divide(left, right))
CallMatches    == Call("matches", matches(left, right))

NextOps ==
    \/ CallNot
    \/ CallAnd
    \/ CallNand
    \/ CallOr
    \/ CallNor
    \/ CallXor
    \/ CallEqual
    \/ CallNotEqual
    \/ CallPlus
    \/ CallUnaryPlus
    \/ CallMinus
    \/ CallUnaryMinus
    \/ CallMultiply
    \/ CallDivide
    \/ CallMatches

SpecOps == InitOps /\ [][NextOps]_vars_all

TypeOKOps ==
    /\ left \in Values
    /\ right \in Values
    /\ operator \in UnaryNames \cup BinaryNames \cup {"none"}
    /\ outcome.kind \in {"None", "Ok", "Err", "Panic"}

----------------------------------------------------------------------------
(* Claims about the operator functions, checked under SpecOps *)

BothInt == left.t = "Int" /\ right.t = "Int"
BothStr == left.t = "Str" /\ right.t = "Str"

(* C4: for every Int a, divide applied to a and Int(0) returns                *)
(* Err(DivisionByZero) and never an Ok value                                  *)
C4_DivideByZeroIsError ==
    (operator = "divide" /\ left.t = "Int" /\ right = VInt(0))
        => (outcome.kind = "Err" /\ outcome.error.variant = "DivisionByZero")

(* the quotient of a by b truncated toward zero, b # 0 *)
Abs(n) == IF n < 0 THEN 0 - n ELSE n
TruncatedQuotient(a, b) ==
    IF (a < 0) = (b < 0) THEN Abs(a) \div Abs(b) ELSE 0 - (Abs(a) \div Abs(b))

(* C5: for all Int a and all Int b other than 0, divide applied to a and b    *)
(* returns Ok(Int(q)), q the quotient of a by b truncated toward zero         *)
C5_DivideIsTruncatedQuotient ==
    (operator = "divide" /\ BothInt /\ right.i # 0)
        => outcome = Ok(VInt(TruncatedQuotient(left.i, right.i)))

(* the pairs of variants each binary operator is defined for *)
DefinedFor(name, l, r) ==
    CASE name \in {"and", "nand", "or", "nor", "xor"} -> l.t = "Bool" /\ r.t = "Bool"
      [] name \in {"equal", "not_equal"} -> l.t = r.t \/ l.t = "Empty" \/ r.t = "Empty"
      [] name = "plus" -> (l.t = "Int" /\ r.t = "Int") \/ (l.t = "Str" /\ r.t = "Str")
      [] name \in {"minus", "multiply", "divide"} -> l.t = "Int" /\ r.t = "Int"
      [] name = "matches" -> l.t = "Str" /\ r.t = "Str"

(* the source symbol of each binary operator *)
Symbol(name) ==
    CASE name = "plus"      -> "+"
      [] name = "minus"     -> "-"
      [] name = "multiply"  -> "*"
      [] name = "divide"    -> "/"
      [] name = "equal"     -> "="
      [] name = "not_equal" -> "!="
      [] OTHER              -> name

(* C6: a binary operator function applied to a pair of variants it is not     *)
(* defined for returns Err(BinaryOp{left, operator, right}) with the two      *)
(* operands as given and the operator's own source symbol                     *)
C6_BinaryErrorCarriesOwnSymbol ==
    (operator \in BinaryNames /\ ~DefinedFor(operator, left, right))
        => outcome = Err(new_binary(left, Symbol(operator), right))

(* C7: equal(Empty, Empty) is Ok(Bool(true)); with exactly one operand Empty  *)
(* equal is Ok(Bool(false)); not_equal returns the negated Bool in each of    *)
(* these cases; none of them is an error                                       *)
C7_EmptyComparisons ==
    /\ (operator = "equal" /\ left = VEmpty /\ right = VEmpty)
           => outcome = Ok(VBool(TRUE))
    /\ (operator = "equal" /\ (left = VEmpty) # (right = VEmpty))
           => outcome = Ok(VBool(FALSE))
    /\ (operator = "not_equal" /\ left = VEmpty /\ right = VEmpty)
           => outcome = Ok(VBool(FALSE))
    /\ (operator = "not_equal" /\ (left = VEmpty) # (right = VEmpty))
           => outcome = Ok(VBool(TRUE))

C7_Witness ==
    /\ operator = "not_equal"
    /\ left.t = "Str" /\ left.s # <<>>
    /\ right = VEmpty
    /\ outcome = Ok(VBool(TRUE))

(* C8: equal and not_equal return an error exactly when both operands are     *)
(* non-Empty and of different variants; for every other pair both succeed,    *)
(* and the Bool of not_equal is the negation of the Bool of equal             *)
MixedVariants == left.t # "Empty" /\ right.t # "Empty" /\ left.t # right.t
C8_EqualNotEqualErrorsAndNegation ==
    /\ operator \in {"equal", "not_equal"}
           => /\ outcome.kind = (IF MixedVariants THEN "Err" ELSE "Ok")
              /\ outcome.kind = "Ok" => outcome.value.t = "Bool"
    /\ (operator = "equal" /\ outcome.kind = "Ok")
           => not_equal(left, right) = Ok(VBool(~outcome.value.b))
    /\ (operator = "not_equal" /\ outcome.kind = "Ok")
           => equal(left, right) = Ok(VBool(~outcome.value.b))
    /\ (operator = "equal" /\ outcome.kind = "Err")
           => not_equal(left, right).kind = "Err"
    /\ (operator = "not_equal" /\ outcome.kind = "Err")
           => equal(left, right).kind = "Err"

C8_Witness ==
    /\ operator = "not_equal"
    /\ BothInt /\ left.i = MinInt /\ right.i = MaxInt
    /\ outcome = Ok(VBool(TRUE))

(* C9: every unary and binary operator function returns Ok or Err for every   *)
(* operand or operand pair, the extremes of the Int range included; none of   *)
(* them panics or aborts                                                      *)
C9_OperatorsNeverPanic ==
    operator # "none" => outcome.kind \in {"Ok", "Err"}

(* C10 as stated: for all Int a and b, plus returns Ok(Int(a+b)), a+b the     *)
(* arithmetic sum; for all Str a and b it returns Ok(Str) of a followed by b  *)
IsConcatenation(res, a, b) ==
    /\ Len(res) = Len(a) + Len(b)
    /\ \A k \in 1..Len(a) : res[k] = a[k]
    /\ \A k \in 1..Len(b) : res[Len(a) + k] = b[k]
C10_PlusIsArithmeticSum ==
    /\ (operator = "plus" /\ BothInt) => outcome = Ok(VInt(left.i + right.i))
    /\ (operator = "plus" /\ BothStr)
           => (outcome.kind = "Ok" /\ outcome.value.t = "Str"
               /\ IsConcatenation(outcome.value.s, left.s, right.s))

(* C10, amended: for all Int a and b whose arithmetic sum lies in the range   *)
(* of Int, plus returns Ok(Int(a+b)); for all Str a and b it returns Ok(Str)  *)
(* of a followed by b                                                         *)
C10_PlusIsSumWithinRange ==
    /\ (operator = "plus" /\ BothInt /\ left.i + right.i \in Ints)
           => outcome = Ok(VInt(left.i + right.i))
    /\ (operator = "plus" /\ BothStr)
           => (outcome.kind = "Ok" /\ outcome.value.t = "Str"
               /\ IsConcatenation(outcome.value.s, left.s, right.s))

C10_Witness ==
    /\ operator = "plus"
    /\ BothInt /\ left.i > 0 /\ right.i > 0 /\ left.i + right.i = MaxInt
    /\ outcome = Ok(VInt(MaxInt))

(* C14 as stated: not succeeds only on Bool, returning the negated Bool;      *)
(* unary plus and unary minus succeed only on Int, returning the same Int and *)
(* the negated Int; on any other variant each returns Err(UnaryOp{value,      *)
(* operator}) with the operand and its own symbol "not", "+", "-"             *)
NotAndUnaryPlus ==
    /\ operator = "not"
           => outcome = (IF left.t = "Bool" THEN Ok(VBool(~left.b))
                         ELSE Err(new_unary(left, "not")))
    /\ operator = "unary_plus"
           => outcome = (IF left.t = "Int" THEN Ok(VInt(left.i))
                         ELSE Err(new_unary(left, "+")))
    /\ (operator = "unary_minus" /\ left.t # "Int")
           => outcome = Err(new_unary(left, "-"))
C14_UnaryOperators ==
    /\ NotAndUnaryPlus
    /\ (operator = "unary_minus" /\ left.t = "Int") => outcome = Ok(VInt(0 - left.i))

(* C14, amended: as stated, with unary minus returning the negated Int for    *)
(* every Int other than the minimum Int                                       *)
C14_UnaryOperatorsWithinRange ==
    /\ NotAndUnaryPlus
    /\ (operator = "unary_minus" /\ left.t = "Int" /\ left.i # MinInt)
           => outcome = Ok(VInt(0 - left.i))

C14_Witness ==
    /\ operator = "unary_minus"
    /\ left = VInt(MaxInt)
    /\ outcome = Ok(VInt(MinInt + 1))

(* C15: and, nand, or, nor and xor succeed exactly on Bool x Bool, where      *)
(* nand is the negation of and, nor the negation of or, and xor is true       *)
(* exactly when the operands differ; with a non-Bool operand on either side   *)
(* each returns a BinaryOp error                                              *)
BothBool == left.t = "Bool" /\ right.t = "Bool"
BooleanNames == {"and", "nand", "or", "nor", "xor"}
C15_BooleanOperators ==
    /\ (operator \in BooleanNames /\ BothBool)
           => (outcome.kind = "Ok" /\ outcome.value.t = "Bool")
    /\ (operator \in BooleanNames /\ ~BothBool)
           => (outcome.kind = "Err" /\ outcome.error.variant = "BinaryOp")
    /\ (operator = "nand" /\ BothBool)
           => outcome = Ok(VBool(~and(left, right).value.b))
    /\ (operator = "nor" /\ BothBool)
           => outcome = Ok(VBool(~or(left, right).value.b))
    /\ (operator = "xor" /\ BothBool)
           => outcome = Ok(VBool(left.b # right.b))

C15_Witness ==
    /\ operator = "nand"
    /\ left = VBool(TRUE) /\ right = VBool(TRUE)
    /\ outcome = Ok(VBool(FALSE))

(* C16: matches on a Str subject and a Str pattern returns Err(InvalidRegex)  *)
(* carrying the pattern text exactly when the pattern does not compile, and   *)
(* otherwise Ok(Bool(b)), b true exactly when the pattern matches somewhere   *)
(* in the subject; with a non-Str operand on either side it returns a         *)
(* BinaryOp error with operator "matches" and never InvalidRegex              *)
PatternCompiles == RegexCompiles(right.s)
MatchesSomewhere ==
    \E from \in 1..(Len(left.s) + 1) : \E to \in (from - 1)..Len(left.s) :
        LET part == SubSeq(left.s, from, to)
        IN  /\ Len(part) = Len(right.s)
            /\ \A k \in 1..Len(part) : right.s[k] \in {".", part[k]}
C16_Matches ==
    /\ (operator = "matches" /\ BothStr /\ ~PatternCompiles)
           => (/\ outcome.kind = "Err"
               /\ outcome.error.variant = "InvalidRegex"
               /\ outcome.error.regex = right.s)
    /\ (operator = "matches" /\ BothStr /\ PatternCompiles)
           => outcome = Ok(VBool(MatchesSomewhere))
    /\ (operator = "matches" /\ ~BothStr)
           => outcome = Err(new_binary(left, "matches", right))
    /\ (operator = "matches" /\ left = VStr(<<"a", "[">>) /\ right = VStr(<<"a", ".">>))
           => outcome = Ok(VBool(TRUE))
    /\ (operator = "matches" /\ left = VStr(<<".">>) /\ right = VStr(<<"a">>))
           => outcome = Ok(VBool(FALSE))

C16_Witness ==
    /\ operator = "matches"
    /\ left = VStr(<<"a">>) /\ right = VStr(<<"[">>)
    /\ outcome.kind = "Err"
    /\ outcome.error.regex = <<"[">>

----------------------------------------------------------------------------
(* One evaluation: evaluate(&expr, &vars) *)

InitEval ==
    /\ overflowChecks \in BOOLEAN
    /\ expr \in Expressions(MaxDepth)
    /\ vars \in Environments
    /\ evaluated = FALSE
    /\ reevaluated = FALSE
    /\ result = NotEvaluated
    /\ log = <<>>
    /\ applied = <<>>
    /\ OpsIdle
    /\ StoreIdle
    /\ RecordIdle
    /\ SessionIdle
    /\ ProcessIdle

(* an evaluate that binds the value it produced in the Variables it was given *)
Evaluate_KeepsItsValue ==
    /\ LET r == evaluate(expr, vars, <<>>)
       IN  /\ result' = r.result
           /\ log' = r.log
           /\ applied' = r.applied
           /\ vars' = IF r.result.kind = "Ok"
                      THEN Variables_put(vars, "x", r.result.value)
                      ELSE vars
    /\ evaluated' = TRUE
    /\ reevaluated' = evaluated
    /\ UNCHANGED <<overflowChecks, expr, opsVars, storeVars, recordVars, sessionVars, processVars>>

(* evaluate borrows e and v immutably; it may be called on them again *)
Evaluate ==
    /\ LET r == evaluate(expr, vars, <<>>)
       IN  /\ result' = r.result
           /\ log' = r.log
           /\ applied' = r.applied
    /\ evaluated' = TRUE
    /\ reevaluated' = evaluated
    /\ UNCHANGED <<overflowChecks, expr, vars, opsVars, storeVars, recordVars, sessionVars,
                   processVars>>

NextEval == Evaluate

SpecEval == InitEval /\ [][NextEval]_vars_all

TypeOKEval ==
    /\ expr.node \in {"Identifier", "Literal", "BinaryOp", "UnaryOp"}
    /\ DOMAIN vars \subseteq Names
    /\ result.kind \in {"None", "Ok", "Err", "Panic"}
    /\ evaluated = (result.kind # "None")

----------------------------------------------------------------------------
(* Claims about evaluate, checked under SpecEval *)

Visited(path) == \E k \in 1..Len(log) : log[k] = path
IsBinary == evaluated /\ expr.node = "BinaryOp"
(* what evaluate makes of each operand on its own *)
LeftAlone  == evaluate(expr.left, vars, <<"left">>).result
RightAlone == evaluate(expr.right, vars, <<"right">>).result

(* C1: a BinaryOp And or Nand whose left operand evaluates to Bool(false)     *)
(* yields Ok(Bool(false)) for And and Ok(Bool(true)) for Nand without         *)
(* evaluating the right operand, so a failing right operand does not fail it  *)
C1_AndNandShortCircuit ==
    (IsBinary /\ expr.operator \in {"And", "Nand"} /\ LeftAlone = EvalOk(VBool(FALSE)))
        => (result = EvalOk(VBool(expr.operator = "Nand")) /\ ~Visited(<<"right">>))

(* C2: a BinaryOp Or or Nor whose left operand evaluates to Bool(true) yields *)
(* Ok(Bool(true)) for Or and Ok(Bool(false)) for Nor without evaluating the   *)
(* right operand, so a failing right operand does not fail it                 *)
C2_OrNorShortCircuit ==
    (IsBinary /\ expr.operator \in {"Or", "Nor"} /\ LeftAlone = EvalOk(VBool(TRUE)))
        => (result = EvalOk(VBool(expr.operator = "Or")) /\ ~Visited(<<"right">>))

(* C3: for a BinaryOp Xor, comparison, arithmetic operator or Matches the     *)
(* right operand is evaluated whenever the left operand evaluated             *)
(* successfully, whatever its value, and a failure of the right operand is    *)
(* the result; Xor(Literal(Bool(false)), Identifier(undeclared)) is           *)
(* Err(UndeclaredIdentifier)                                                  *)
NeverShortCircuit == {"Xor", "Equal", "NotEqual", "Plus", "Minus", "Multiply",
                      "Divide", "Matches"}
C3_RightOperandAlwaysEvaluated ==
    /\ (IsBinary /\ expr.operator \in NeverShortCircuit /\ LeftAlone.kind = "Ok")
           => /\ Visited(<<"right">>)
              /\ RightAlone.kind # "Ok" => result = RightAlone
    /\ (evaluated /\ expr = BinaryOp(Literal(LBool(FALSE)), "Xor", Identifier("undeclared")))
           => result = EvalErr(UndeclaredIndentifier("undeclared"))

C3_Witness ==
    /\ evaluated
    /\ expr = BinaryOp(Literal(LBool(FALSE)), "Xor", Identifier("undeclared"))
    /\ Visited(<<"right">>)
    /\ result.kind = "Err"

(* C11 as stated: Identifier(name) evaluates to Err(UndeclaredIdentifier(name)) *)
(* when Variables has no binding for name and to Ok of exactly the bound value  *)
(* otherwise; hence Identifier(n) Plus Literal(Int(1)) against {n: Int(k)} is   *)
(* Ok(Int(k+1))                                                                 *)
IdentifierIsLookedUp ==
    (evaluated /\ expr.node = "Identifier")
        => result = (IF expr.name \in DOMAIN vars
                     THEN EvalOk(vars[expr.name])
                     ELSE EvalErr(UndeclaredIndentifier(expr.name)))
IsIncrementOfBoundInt ==
    /\ evaluated
    /\ expr.node = "BinaryOp"
    /\ expr.operator = "Plus"
    /\ expr.left.node = "Identifier"
    /\ expr.right = Literal(LInt(1))
    /\ expr.left.name \in DOMAIN vars
    /\ vars[expr.left.name].t = "Int"
C11_IdentifierLookup ==
    /\ IdentifierIsLookedUp
    /\ IsIncrementOfBoundInt => result = EvalOk(VInt(vars[expr.left.name].i + 1))

(* C11, amended: as stated, with the increment for every k below the maximum  *)
(* Int                                                                        *)
C11_IdentifierLookupWithinRange ==
    /\ IdentifierIsLookedUp
    /\ (IsIncrementOfBoundInt /\ vars[expr.left.name].i < MaxInt)
           => result = EvalOk(VInt(vars[expr.left.name].i + 1))

C11_Witness ==
    /\ evaluated
    /\ expr = BinaryOp(Identifier("x"), "Plus", Literal(LInt(1)))
    /\ vars = Variables_put(Variables_new, "x", VInt(1))
    /\ result = EvalOk(VInt(2))

(* C12: evaluation is left to right and stops at the first error: when the    *)
(* left operand of a BinaryOp fails, its error is the result and the right    *)
(* operand is not evaluated; when the left succeeds, no short-circuit applies *)
(* and the right fails, the right operand's error is the result; the operator *)
(* function is applied only when both operands succeeded                      *)
Applied(path) == \E k \in 1..Len(applied) : applied[k] = path
Position(path) == CHOOSE k \in 1..Len(log) : log[k] = path
ShortCircuitApplies ==
    \/ expr.operator \in {"And", "Nand"} /\ LeftAlone = EvalOk(VBool(FALSE))
    \/ expr.operator \in {"Or", "Nor"} /\ LeftAlone = EvalOk(VBool(TRUE))
C12_LeftToRightFirstError ==
    IsBinary =>
        /\ LeftAlone.kind = "Err"
               => (result = LeftAlone /\ ~Visited(<<"right">>) /\ ~Applied(<<>>))
        /\ (LeftAlone.kind = "Ok" /\ ~ShortCircuitApplies /\ RightAlone.kind = "Err")
               => (result = RightAlone /\ ~Applied(<<>>))
        /\ Visited(<<"right">>)
               => (Visited(<<"left">>) /\ Position(<<"left">>) < Position(<<"right">>))
        /\ Applied(<<>>) => (LeftAlone.kind = "Ok" /\ RightAlone.kind = "Ok")

C12_Witness ==
    /\ evaluated
    /\ expr = BinaryOp(Identifier("undeclared"), "Plus", Identifier("x"))
    /\ "x" \notin DOMAIN vars
    /\ result = EvalErr(UndeclaredIndentifier("undeclared"))
    /\ log = << <<>>, <<"left">> >>

OperandAlone == evaluate(expr.expression, vars, <<"expression">>).result
C17_WrongArityPanics ==
    /\ (/\ evaluated
        /\ expr.node = "UnaryOp"
        /\ expr.operator \notin {"Not", "Plus", "Minus"}
        /\ OperandAlone.kind = "Ok")
           => result = EvalPanic("invalid unary operation")
    /\ (IsBinary /\ expr.operator = "Not" /\ LeftAlone.kind = "Ok" /\ RightAlone.kind = "Ok")
           => result = EvalPanic("invalid binary operation")

C17_Witness ==
    /\ evaluated
    /\ expr = UnaryOp(Literal(LBool(TRUE)), "And")
    /\ result.kind = "Panic"

----------------------------------------------------------------------------
(* Calls on one Variables: put, remove, extend *)

InitVars ==
    /\ overflowChecks \in BOOLEAN
    /\ OpsIdle
    /\ EvalIdle
    /\ StoreIdle
    /\ RecordIdle
    /\ SessionIdle
    /\ ProcessIdle

Put(name, value) ==
    /\ store' = Variables_put(store, name, value)
    /\ before' = store
    /\ call' = [value |-> value, other |-> Variables_new, name |-> name, fn |-> "put"]
    /\ returned' = FALSE
    /\ lastPut' = [lastPut EXCEPT ![name] = <<value>>]
    /\ rendered' = rendered
    /\ UNCHANGED <<overflowChecks, opsVars, evalVars, recordVars, sessionVars, processVars>>

Remove(name) ==
    /\ store' = Variables_remove(store, name).values
    /\ before' = store
    /\ call' = [value |-> VEmpty, other |-> Variables_new, name |-> name, fn |-> "remove"]
    /\ returned' = Variables_remove(store, name).removed
    /\ lastPut' = [lastPut EXCEPT ![name] = <<>>]
    /\ rendered' = rendered
    /\ UNCHANGED <<overflowChecks, opsVars, evalVars, recordVars, sessionVars, processVars>>

Extend(other) ==
    /\ store' = Variables_extend(store, other)
    /\ before' = store
    /\ call' = [value |-> VEmpty, other |-> other, name |-> "", fn |-> "extend"]
    /\ returned' = FALSE
    /\ lastPut' = [n \in StoreNames |-> IF n \in DOMAIN other THEN <<other[n]>> ELSE lastPut[n]]
    /\ rendered' = rendered
    /\ UNCHANGED <<overflowChecks, opsVars, evalVars, recordVars, sessionVars, processVars>>

(* show(true), show(false) and Display of the same Variables *)
Show(order) ==
    /\ order \in IterationOrders(store)
    /\ rendered' = [order      |-> order,
                    display    |-> Variables_fmt(store, order),
                    show_true  |-> Variables_show(store, TRUE, order),
                    show_false |-> Variables_show(store, FALSE, order)]
    /\ before' = store
    /\ call' = [value |-> VEmpty, other |-> Variables_new, name |-> "", fn |-> "show"]
    /\ UNCHANGED <<store, returned, lastPut>>
    /\ UNCHANGED <<overflowChecks, opsVars, evalVars, recordVars, sessionVars, processVars>>

NextVars ==
    \/ \E name \in StoreNames, value \in StoreValues : Put(name, value)
    \/ \E name \in StoreNames : Remove(name)
    \/ \E other \in Others : Extend(other)
    \/ \E order \in StoreOrders : Show(order)

SpecVars == InitVars /\ [][NextVars]_vars_all

TypeOKVars ==
    /\ DOMAIN store \subseteq StoreNames
    /\ DOMAIN before \subseteq StoreNames
    /\ call.fn \in {"none", "put", "remove", "extend", "show"}
    /\ returned \in BOOLEAN

(* C18: after any sequence of put and remove calls, get(name) returns the     *)
(* value of the most recent put(name, v) that no remove(name) followed, and   *)
(* None if there is none; a put on an existing name replaces its value and    *)
(* leaves the count of bindings unchanged                                     *)
C18_GetReturnsLatestPut ==
    /\ \A name \in StoreNames : Variables_get(store, name) = lastPut[name]
    /\ (call.fn = "put" /\ call.name \in DOMAIN before)
           => (/\ Variables_get(store, call.name) = <<call.value>>
               /\ Variables_count(store) = Variables_count(before))

C18_Witness ==
    /\ call.fn = "put"
    /\ Variables_get(before, call.name) = <<VInt(1)>>
    /\ Variables_get(store, call.name) = <<VBool(TRUE)>>
    /\ Variables_count(store) = 2

(* C19: remove(name) returns true exactly when a binding for name existed     *)
(* before the call; after the call no binding for name exists and every other *)
(* binding is as it was; a remove of a bound name returns true and a remove   *)
(* directly after a remove of the same name returns false                     *)
RemoveReturn ==
    call.fn = "remove"
        => (/\ returned = (call.name \in DOMAIN before)
            /\ Variables_get(store, call.name) = <<>>
            /\ \A n \in StoreNames \ {call.name} :
                   Variables_get(store, n) = Variables_get(before, n))
RemoveAgain ==
    /\ (call'.fn = "remove" /\ Variables_get(store, call'.name) # <<>>)
           => returned' = TRUE
    /\ (call.fn = "remove" /\ call'.fn = "remove" /\ call'.name = call.name)
           => returned' = FALSE
C19_RemoveReturnsWhetherBound == []RemoveReturn /\ [][RemoveAgain]_vars_all

C19_Witness ==
    /\ call.fn = "remove"
    /\ returned
    /\ Variables_get(before, call.name) = <<VEmpty>>
    /\ Variables_count(store) = 1

(* C20: after a.extend(b) every name bound in b is bound in a to b's value,   *)
(* a name bound only in a keeps a's value, and no other name is bound         *)
C20_ExtendRightBiased ==
    call.fn = "extend"
        => (/\ \A n \in DOMAIN call.other : Variables_get(store, n) = <<call.other[n]>>
            /\ \A n \in (DOMAIN before) \ (DOMAIN call.other) :
                   Variables_get(store, n) = Variables_get(before, n)
            /\ DOMAIN store = (DOMAIN before) \cup (DOMAIN call.other))

C20_Witness ==
    /\ call.fn = "extend"
    /\ Variables_get(before, "x") = <<VInt(1)>>
    /\ Variables_get(before, "y") = <<VBool(TRUE)>>
    /\ Variables_get(store, "x") = <<VBool(TRUE)>>
    /\ Variables_get(store, "y") = <<VBool(TRUE)>>

(* C21: show(true) renders exactly one "name = value" line for each binding   *)
(* whose value is not Empty and none for an Empty-valued binding; show(false) *)
(* renders one line for every binding, Empty-valued ones included; the        *)
(* Display rendering equals show(true)                                        *)
RECURSIVE Lines(_)
Lines(text) ==
    IF text = <<>> THEN <<>>
    ELSE LET end == CHOOSE k \in 1..Len(text) :
                        text[k] = "\n" /\ \A j \in 1..(k - 1) : text[j] # "\n"
         IN  <<SubSeq(text, 1, end - 1)>> \o Lines(SubSeq(text, end + 1, Len(text)))
ValueText(v) ==
    CASE v = VInt(1)      -> <<"1">>
      [] v = VBool(TRUE)  -> <<"true">>
      [] v = VEmpty       -> <<"empty">>
LineOf(name) == <<name, " = ">> \o ValueText(store[name])
OneLineEach(text, names) ==
    /\ Len(Lines(text)) = Cardinality(names)
    /\ {Lines(text)[k] : k \in 1..Len(Lines(text))} = {LineOf(name) : name \in names}
C21_ShowOmitsEmpty ==
    call.fn = "show"
        => (/\ OneLineEach(rendered.show_true, {n \in DOMAIN store : store[n] # VEmpty})
            /\ OneLineEach(rendered.show_false, DOMAIN store)
            /\ rendered.display = rendered.show_true)

C21_Witness ==
    /\ call.fn = "show"
    /\ store = Variables_put(Variables_put(Variables_new, "x", VEmpty), "y", VInt(1))
    /\ rendered.show_true = <<"y", " = ", "1", "\n">>
    /\ rendered.show_false = <<"x", " = ", "empty", "\n", "y", " = ", "1", "\n">>

----------------------------------------------------------------------------
(* Calls of the derived methods on one record *)

InitRecord ==
    /\ overflowChecks \in BOOLEAN
    /\ OpsIdle
    /\ EvalIdle
    /\ StoreIdle
    /\ RecordIdle
    /\ SessionIdle
    /\ ProcessIdle

CallToVariables ==
    /\ materialized' = to_variables(record, RecordFields)
    /\ recordBefore' = record
    /\ assignment' = NoAssignment
    /\ setResult' = Materialized
    /\ UNCHANGED <<record, overflowChecks, opsVars, evalVars, storeVars, sessionVars, processVars>>

CallSetFromAssignment(a) ==
    /\ record' = set_from_assignment(record, RecordFields, a).self
    /\ setResult' = set_from_assignment(record, RecordFields, a).result
    /\ recordBefore' = record
    /\ assignment' = a
    /\ UNCHANGED <<materialized, overflowChecks, opsVars, evalVars, storeVars, sessionVars,
                   processVars>>

NextRecord ==
    \/ CallToVariables
    \/ \E identifier \in RecordIdentifiers, expression \in RecordExpressions :
           CallSetFromAssignment(Assignment(identifier, expression))

SpecRecord == InitRecord /\ [][NextRecord]_vars_all

TypeOKRecord ==
    /\ DOMAIN record = {"count", "flag", "label", "limit"}
    /\ setResult.kind \in {"None", "ToVariables", "Ok", "Err", "Panic"}
    /\ assignment.identifier \in RecordIdentifiers \cup {""}

(* C22: materializing a record yields exactly one binding per field and no    *)
(* others: a non-nullable field is bound to its value in the variant of its   *)
(* declared type, a nullable field holding a value to that value, and a       *)
(* nullable field holding no value to Empty                                   *)
C22_OneBindingPerField ==
    setResult.kind = "ToVariables"
        => (/\ DOMAIN materialized = {"count", "flag", "label", "limit"}
            /\ materialized["count"] = VInt(record["count"].i)
            /\ materialized["flag"] = VBool(record["flag"].b)
            /\ materialized["label"] = (IF record["label"].some
                                        THEN VStr(record["label"].s) ELSE VEmpty)
            /\ materialized["limit"] = (IF record["limit"].some
                                        THEN VInt(record["limit"].i) ELSE VEmpty))

C22_Witness ==
    /\ setResult.kind = "ToVariables"
    /\ record["label"].some
    /\ ~record["limit"].some
    /\ materialized["label"] = VStr(<<"a">>)
    /\ materialized["limit"] = VEmpty
    /\ materialized["count"] = VInt(1)

(* the declared type of each field of the record, and the name of a type *)
DeclaredType == [count |-> "Int", flag |-> "Bool", label |-> "Str", limit |-> "Int"]
Nullable == {"label", "limit"}
TypeName == [Int |-> "int", Str |-> "str", Bool |-> "bool"]
Produced == evaluate(assignment.expression, Variables_new, <<>>).result
Assigned == setResult.kind \in {"Ok", "Err", "Panic"}
Held(name) ==
    IF ~record[name].some THEN VEmpty
    ELSE CASE DeclaredType[name] = "Int"  -> VInt(record[name].i)
           [] DeclaredType[name] = "Str"  -> VStr(record[name].s)
           [] DeclaredType[name] = "Bool" -> VBool(record[name].b)
Pieces(text) == {text[k] : k \in 1..Len(text)}

(* C23: assigning to a known field an expression that evaluates to a          *)
(* non-Empty value of another variant than the field's declared type fails    *)
(* with an error whose message names the field and the expected type (int,    *)
(* str or bool); when the variant matches the call succeeds and the field     *)
(* holds the produced value                                                   *)
C23_TypeMismatchIsError ==
    (/\ Assigned
     /\ assignment.identifier \in DOMAIN DeclaredType
     /\ Produced.kind = "Ok"
     /\ Produced.value.t # "Empty")
        => IF Produced.value.t = DeclaredType[assignment.identifier]
           THEN /\ setResult = SetOk
                /\ Held(assignment.identifier) = Produced.value
           ELSE /\ setResult.kind = "Err"
                /\ setResult.error.variant = "ValueError"
                /\ setResult.error.value_error.variant = "Other"
                /\ {assignment.identifier, TypeName[DeclaredType[assignment.identifier]]}
                       \subseteq Pieces(setResult.error.value_error.message)

C23_Witness ==
    /\ assignment = Assignment("flag", Literal(LInt(1)))
    /\ setResult.kind = "Err"
    /\ setResult.error.value_error.message = <<"variable ", "flag", " shoud be of type ", "bool">>

(* C24: assigning an expression that evaluates to Empty fails with a "cannot  *)
(* be empty" error when the named field is non-nullable, and succeeds setting *)
(* the field to null when the named field is nullable                         *)
C24_EmptyClearsOnlyNullable ==
    (/\ Assigned
     /\ assignment.identifier \in DOMAIN DeclaredType
     /\ Produced = EvalOk(VEmpty))
        => IF assignment.identifier \in Nullable
           THEN /\ setResult = SetOk
                /\ ~record[assignment.identifier].some
           ELSE /\ setResult.kind = "Err"
                /\ setResult.error.value_error.variant = "Other"
                /\ " cannot be empty" \in Pieces(setResult.error.value_error.message)

C24_Witness ==
    /\ assignment = Assignment("limit", Literal(LEmpty))
    /\ recordBefore["limit"].some
    /\ ~record["limit"].some
    /\ setResult = SetOk

(* C25: assigning to an identifier that matches no field of the record fails  *)
(* with UndeclaredIdentifier carrying that identifier, for every expression   *)
(* of the assignment, one whose own evaluation would fail included            *)
C25_UnknownFieldIsUndeclared ==
    (Assigned /\ assignment.identifier \notin DOMAIN DeclaredType)
        => setResult = SetErr(UndeclaredIndentifier(assignment.identifier))

----------------------------------------------------------------------------
(* The messages of one chat, handled one after another *)

(* no message drawn here has the session do i64 arithmetic: one build stands for both *)
InitSession ==
    /\ overflowChecks = FALSE
    /\ OpsIdle
    /\ EvalIdle
    /\ StoreIdle
    /\ RecordIdle
    /\ SessionIdle
    /\ ProcessIdle

HandleMessage(m, from_admin) ==
    /\ \E handled \in {handle_message(chat, m, from_admin)} :
           /\ chat' = handled.chat
           /\ updates' = [result |-> handled.result, panic |-> handled.panic]
    /\ chatBefore' = chat
    /\ message' = [m |-> m, from_admin |-> from_admin]
    /\ UNCHANGED <<overflowChecks, opsVars, evalVars, storeVars, recordVars, processVars>>

NextSession == \E c \in SessionCalls : HandleMessage(c.m, c.from_admin)

SpecSession == InitSession /\ [][NextSession]_vars_all

TypeOKSession ==
    /\ DOMAIN chat.settings = DOMAIN Settings_default
    /\ Len(chat.filter) <= 1
    /\ updates.panic = ""
    /\ message.from_admin \in BOOLEAN

(* the command the last message was, if it was one *)
Parsed == Command_new(message.m.text[1], BotUsername)
IsCommand(names) ==
    /\ message.m.handled
    /\ message.m.text # <<>>
    /\ Parsed.kind = "Ok"
    /\ Parsed.command.some
    /\ Parsed.command.name \in names
Executed(names) ==
    /\ IsCommand(names)
    /\ (message.from_admin \/ Parsed.command.name \notin
            {"SetFilter", "SetOption", "SetVariable", "UnsetVariable"})
FirstReply == updates.result[1].text

(* C26: a command that reports a failure leaves prior state untouched: when   *)
(* set_filter fails to parse, or set_option or set_variable fails, or         *)
(* unset_variable names a missing variable, the chat's filter, every settings *)
(* field and every user variable equal their values before the command        *)
ReportsFailure ==
    /\ updates.result # <<>>
    /\ updates.result[1].kind = "Message"
    /\ FirstReply # <<>>
    /\ \/ FirstReply[1] \in {"parse error: ", "failed to set option: ",
                             "failed to set variable: ", "failed to set variable: \""}
       \/ FirstReply[Len(FirstReply)] = "\" does not exist"
C26_FailureLeavesStateUntouched ==
    (Executed({"SetFilter", "SetOption", "SetVariable", "UnsetVariable"}) /\ ReportsFailure)
        => (/\ chat.filter = chatBefore.filter
            /\ \A option \in DOMAIN Settings_default :
                   chat.settings[option] = chatBefore.settings[option]
            /\ chat.variables = chatBefore.variables)

C26_Witness ==
    /\ Executed({"SetOption"})
    /\ Parsed.command.arg = "filter_enabled := 1"
    /\ FirstReply = <<"failed to set option: ", "value error: ", "variable ",
                      "filter_enabled", " shoud be of type ", "bool">>
    /\ chatBefore.variables # Variables_new
    /\ chat = chatBefore

(* C27: for set_variable with x := e, every identifier in e, x itself         *)
(* included, reads the value bound before the command; only after e evaluated *)
(* successfully is x bound to the result, and no other binding changes        *)
Assigning == AssignmentParser_parse(Parsed.command.arg)[1]
ValueBefore == evaluate(Assigning.expression, chatBefore.variables, <<>>).result
C27_AssignmentReadsSnapshot ==
    (/\ Executed({"SetVariable"})
     /\ AssignmentParser_parse(Parsed.command.arg) # <<>>
     /\ Assigning.identifier \notin MessageVariablesNames)
        => IF ValueBefore.kind = "Ok"
           THEN /\ DOMAIN chat.variables = DOMAIN chatBefore.variables \cup {Assigning.identifier}
                /\ chat.variables[Assigning.identifier] = ValueBefore.value
                /\ \A n \in DOMAIN chatBefore.variables \ {Assigning.identifier} :
                       chat.variables[n] = chatBefore.variables[n]
           ELSE chat.variables = chatBefore.variables

C27_Witness ==
    /\ Executed({"SetVariable"})
    /\ Parsed.command.arg = "x := not x"
    /\ "y" \in DOMAIN chatBefore.variables
    /\ chatBefore.variables["x"] = VBool(TRUE)
    /\ chat.variables["x"] = VBool(FALSE)

(* C28: starting from an empty store, the user variables never hold a binding *)
(* whose name is a reserved message-derived variable name: set_variable with  *)
(* such an identifier is rejected with an "is reserved" message before any    *)
(* storage, so merging the user variables over the message variables never    *)
(* replaces a message-derived value                                           *)
OfMessage == to_variables(MessageVariables_from(message.m.text), MessageVariablesFields)
C28_ReservedNamesNeverStored ==
    /\ DOMAIN chat.variables \cap MessageVariablesNames = {}
    /\ (/\ Executed({"SetVariable"})
        /\ AssignmentParser_parse(Parsed.command.arg) # <<>>
        /\ Assigning.identifier \in MessageVariablesNames)
           => (/\ FirstReply = <<"failed to set variable: \"", Assigning.identifier,
                                 "\" is reserved">>
               /\ chat.variables = chatBefore.variables)
    /\ \A n \in MessageVariablesNames :
           Variables_extend(OfMessage, chat.variables)[n] = OfMessage[n]

C28_Witness ==
    /\ Executed({"SetVariable"})
    /\ Parsed.command.arg = "has_text := false"
    /\ FirstReply = <<"failed to set variable: \"", "has_text", "\" is reserved">>
    /\ chat.variables # Variables_new

IsInvalidCommand ==
    /\ message.m.handled
    /\ message.m.text # <<>>
    /\ Parsed.kind = "Err"
ErrorReports ==
    {k \in 1..Len(updates.result) :
        /\ updates.result[k].kind = "Message"
        /\ updates.result[k].text # <<>>
        /\ updates.result[k].text[1] = "error: "}
C30_ReportInvalidCommandsSetting ==
    IsInvalidCommand
        => IF chatBefore.settings["report_invalid_commands"].b
           THEN Cardinality(ErrorReports) = 1
           ELSE ErrorReports = {}

----------------------------------------------------------------------------
(* Termination of evaluate, checked under SpecEval *)

(* the nodes of a tree, and whether a path from the root names one of them *)
RECURSIVE NodeCount(_)
NodeCount(e) ==
    CASE e.node = "BinaryOp" -> 1 + NodeCount(e.left) + NodeCount(e.right)
      [] e.node = "UnaryOp"  -> 1 + NodeCount(e.expression)
      [] OTHER               -> 1
RECURSIVE IsNode(_, _)
IsNode(e, path) ==
    IF path = <<>> THEN TRUE
    ELSE CASE e.node = "BinaryOp" /\ Head(path) = "left"  -> IsNode(e.left, Tail(path))
           [] e.node = "BinaryOp" /\ Head(path) = "right" -> IsNode(e.right, Tail(path))
           [] e.node = "UnaryOp" /\ Head(path) = "expression" ->
                  IsNode(e.expression, Tail(path))
           [] OTHER -> FALSE

(* C31: for every finite tree and every Variables evaluate returns Ok, Err or *)
(* the fatal arity error, having entered only nodes of the tree, each of them *)
(* at most once: the walk is no longer than the tree has nodes                *)
C31_EvaluateVisitsEachNodeOnce ==
    evaluated
        => (/\ result.kind \in {"Ok", "Err", "Panic"}
            /\ \A k \in 1..Len(log) : IsNode(expr, log[k])
            /\ \A j, k \in 1..Len(log) : log[j] = log[k] => j = k
            /\ Len(log) <= NodeCount(expr))

C31_Witness ==
    /\ evaluated
    /\ expr.node = "BinaryOp"
    /\ result.kind = "Ok"
    /\ NodeCount(expr) = 3
    /\ log = <<<<>>, <<"left">>, <<"right">>>>

----------------------------------------------------------------------------
(* The filter and the success report, checked under SpecSession *)

CommandNames ==
    {"SetFilter", "GetFilter", "SetOption", "GetOptions", "SetVariable", "UnsetVariable",
     "GetVariables", "GetMessageVariables", "Eval", "Help"}
ExecutedAsCommand == Executed(CommandNames)
Deletions ==
    {k \in 1..Len(updates.result) : updates.result[k].kind = "DeleteMessage"}
(* what the filter makes of the message against its variables extended with *)
(* the user variables                                                       *)
FilterValue ==
    evaluate(chatBefore.filter[1].expression,
             Variables_extend(OfMessage, chatBefore.variables), <<>>).result

FilterRuns ==
    /\ message.m.handled
    /\ ~ExecutedAsCommand
    /\ chatBefore.settings["filter_enabled"].b
    /\ chatBefore.filter # <<>>
FilterFails ==
    \/ FilterValue.kind = "Err"
    \/ FilterValue.kind = "Ok" /\ FilterValue.value.t # "Bool"
FilterErrors ==
    {k \in 1..Len(updates.result) :
        /\ updates.result[k].kind = "Message"
        /\ updates.result[k].text # <<>>
        /\ updates.result[k].text[1] \in {"error: failed to evaluate filter: ",
                                           "error: filter evaluated to non-bool value"}}
Successes ==
    {k \in 1..Len(updates.result) : updates.result[k] = SendMessage(<<"success">>)}
----------------------------------------------------------------------------
(* The message handlers of main, the task of the cleanup routine, the clock *)
(* and the restart of the process                                           *)

besidesMain ==
    <<overflowChecks, opsVars, evalVars, storeVars, recordVars, sessionVars, migrateVars,
      messageVars>>

(* no message drawn here has the session do i64 arithmetic: one build stands for both *)
InitMain ==
    /\ overflowChecks = FALSE
    /\ OpsIdle
    /\ EvalIdle
    /\ StoreIdle
    /\ RecordIdle
    /\ SessionIdle
    /\ ProcessIdle

(* teloxide::repl calls the handler with a message of a chat: the handler asks *)
(* for the sessions lock                                                       *)
Receive(t) ==
    /\ tasks[t].pc = "idle"
    /\ \E c \in ChatIds : tasks' = [tasks EXCEPT ![t] = Task("sessions.lock", c, <<>>)]
    /\ sessionsLock' = Mutex_lock(sessionsLock, t)
    /\ UNCHANGED <<sessions, database, databaseLock, now, cleanup, lastCall, besidesMain>>

(* sessions.lock().await returns and the session of the chat is looked up: *)
(* when there is none Session::new asks for the database lock              *)
LockSessions(t) ==
    /\ tasks[t].pc = "sessions.lock"
    /\ Mutex_ready(sessionsLock, t)
    /\ sessionsLock' = Mutex_acquire(sessionsLock, t)
    /\ IF sessions[tasks[t].chat_id] # <<>>
       THEN /\ tasks' = [tasks EXCEPT ![t].pc = "handle_message"]
            /\ UNCHANGED databaseLock
       ELSE /\ tasks' = [tasks EXCEPT ![t].pc = "new: db.lock"]
            /\ databaseLock' = Mutex_lock(databaseLock, t)
    /\ UNCHANGED <<sessions, database, now, cleanup, lastCall, besidesMain>>

(* db.lock().await returns, in Session::new or at the end of handle_message *)
LockDatabase(t) ==
    /\ tasks[t].pc \in {"new: db.lock", "handle_message: db.lock"}
    /\ Mutex_ready(databaseLock, t)
    /\ databaseLock' = Mutex_acquire(databaseLock, t)
    /\ tasks' = [tasks EXCEPT ![t].pc = IF @ = "new: db.lock" THEN "new: find_chat_by_id"
                                        ELSE "handle_message: insert_chat"]
    /\ UNCHANGED <<sessions, database, sessionsLock, now, cleanup, lastCall, besidesMain>>

(* find_chat_by_id returns in Session::new and the database lock is dropped: *)
(* on Ok the session is inserted, on Err the handler logs and returns        *)
FindChat(t) ==
    /\ tasks[t].pc = "new: find_chat_by_id"
    /\ \E found \in BOOLEAN, inserted \in BOOLEAN :
         \E got \in {find_chat_by_id(database, tasks[t].chat_id, found, inserted)} :
            /\ database' = got.database
            /\ IF got.result = "Ok"
               THEN /\ sessions' = [sessions EXCEPT ![tasks[t].chat_id] =
                                       <<Session(tasks[t].chat_id, got.chat, now)>>]
                    /\ tasks' = [tasks EXCEPT ![t].pc = "handle_message"]
                    /\ UNCHANGED sessionsLock
               ELSE /\ tasks' = [tasks EXCEPT ![t] = TaskIdle]
                    /\ sessionsLock' = Mutex_drop(sessionsLock)
                    /\ UNCHANGED sessions
    /\ databaseLock' = Mutex_drop(databaseLock)
    /\ UNCHANGED <<now, cleanup, lastCall, besidesMain>>

(* is_admin is worked out and handle_message is called with a message of the *)
(* chat: it refreshes the session, changes the chat in memory, builds the    *)
(* updates and asks for the database lock                                    *)
CallHandleMessage(t) ==
    /\ tasks[t].pc = "handle_message"
    /\ \E m \in MainMessages, from_admin \in BOOLEAN :
         \E handled \in {handle_message(sessions[tasks[t].chat_id][1].chat, m, from_admin)} :
            /\ sessions' = [sessions EXCEPT ![tasks[t].chat_id] =
                               <<Session(tasks[t].chat_id, handled.chat, now)>>]
            /\ tasks' = [tasks EXCEPT ![t] = Task("handle_message: db.lock",
                                                  tasks[t].chat_id, handled.result)]
    /\ databaseLock' = Mutex_lock(databaseLock, t)
    /\ lastCall' = [lastCall EXCEPT ![tasks[t].chat_id] = "Running"]
    /\ UNCHANGED <<database, sessionsLock, now, cleanup, besidesMain>>

(* insert_chat returns and the database lock is dropped: on Ok handle_message *)
(* returns the updates, on Err the handler logs, sends none and returns       *)
InsertChat(t) ==
    /\ tasks[t].pc = "handle_message: insert_chat"
    /\ \E replaced \in BOOLEAN :
         \E put \in {insert_chat(database, tasks[t].chat_id,
                                 sessions[tasks[t].chat_id][1].chat, replaced)} :
            /\ database' = put.database
            /\ lastCall' = [lastCall EXCEPT ![tasks[t].chat_id] = put.result]
            /\ IF put.result = "Ok"
               THEN /\ tasks' = [tasks EXCEPT ![t].pc = "send"]
                    /\ UNCHANGED sessionsLock
               ELSE /\ tasks' = [tasks EXCEPT ![t] = TaskIdle]
                    /\ sessionsLock' = Mutex_drop(sessionsLock)
    /\ databaseLock' = Mutex_drop(databaseLock)
    /\ UNCHANGED <<sessions, now, cleanup, besidesMain>>

(* the next update is sent: a failure to send is logged only *)
Send(t) ==
    /\ tasks[t].pc = "send"
    /\ tasks[t].updates # <<>>
    /\ tasks' = [tasks EXCEPT ![t].updates = Tail(@)]
    /\ UNCHANGED <<sessions, database, sessionsLock, databaseLock, now, cleanup, lastCall,
                   besidesMain>>

(* every update is sent: the handler returns and the sessions lock is dropped *)
Return(t) ==
    /\ tasks[t].pc = "send"
    /\ tasks[t].updates = <<>>
    /\ tasks' = [tasks EXCEPT ![t] = TaskIdle]
    /\ sessionsLock' = Mutex_drop(sessionsLock)
    /\ UNCHANGED <<sessions, database, databaseLock, now, cleanup, lastCall, besidesMain>>

(* the task spawned at startup runs: its async block calls                  *)
(* session_cleanup_routine, which returns a future, and ends without having *)
(* awaited it; the future is dropped and its body never runs                *)
RunCleanupTask ==
    /\ cleanup = "spawned"
    /\ cleanup' = "finished"
    /\ UNCHANGED <<sessions, database, sessionsLock, databaseLock, tasks, now, lastCall,
                   besidesMain>>

(* time passes *)
Tick ==
    /\ now' \in {instant \in Instants : instant > now}
    /\ UNCHANGED <<sessions, database, sessionsLock, databaseLock, tasks, cleanup, lastCall,
                   besidesMain>>

(* the process is stopped and started again: the database alone is kept *)
Restart ==
    /\ sessions' = [c \in ChatIds |-> <<>>]
    /\ sessionsLock' = Mutex_new
    /\ databaseLock' = Mutex_new
    /\ tasks' = [t \in Handlers |-> TaskIdle]
    /\ cleanup' = "spawned"
    /\ lastCall' = [c \in ChatIds |-> ""]
    /\ UNCHANGED <<database, now, besidesMain>>

(* the steps of a handler that has the sessions lock or waits for it *)
Handler(t) ==
    \/ LockSessions(t)
    \/ LockDatabase(t)
    \/ FindChat(t)
    \/ InsertChat(t)
    \/ Send(t)
    \/ Return(t)

NextRun ==
    \/ \E t \in Handlers : Receive(t) \/ Handler(t) \/ CallHandleMessage(t)
    \/ RunCleanupTask
    \/ Tick

NextMain == NextRun \/ Restart

SpecMain == InitMain /\ [][NextMain]_vars_all

(* a handler is past its call of handle_message: the call runs without *)
(* waiting up to where it asks for the database lock                   *)
Called(t) ==
    /\ tasks[t].pc = "handle_message"
    /\ tasks' = [tasks EXCEPT ![t].pc = "handle_message: db.lock"]

(* one run of the process: a task that can take a step takes it in the end, *)
(* a task that stands before handle_message gets past the call, every I/O a *)
(* task waits for returns, and time passes                                  *)
SpecMainFair ==
    /\ InitMain
    /\ [][NextRun]_vars_all
    /\ \A t \in Handlers : WF_vars_all(Handler(t)) /\ WF_tasks(Called(t))
    /\ WF_vars_all(RunCleanupTask)
    /\ WF_vars_all(Tick)

Stored(c) == database[c] = <<Document(c, sessions[c][1].chat)>>

TimedOut(c) == sessions[c] # <<>> /\ is_timed_out(sessions[c][1], now, timeout_duration)

(* C36: a session that has handled no message for longer than the timeout is *)
(* removed from the sessions map in the end unless it handles a message      *)
(* again, and a session that handled one within the timeout is not removed   *)
C36_IdleSessionIsRemoved ==
    /\ \A c \in ChatIds : TimedOut(c) ~> ~TimedOut(c)
    /\ [][\A c \in ChatIds :
              (sessions[c] # <<>> /\ ~TimedOut(c)) => sessions'[c] # <<>>]_vars_all

InHandler(t) == tasks[t].pc \notin {"idle", "sessions.lock"}
InHandleMessage(t) ==
    tasks[t].pc \in {"handle_message: db.lock", "handle_message: insert_chat"}

(* C37: at most one Session exists per chat id and at most one handler is past *)
(* the sessions lock at a time: a handler holds the sessions lock from the     *)
(* lookup or creation of the session until every update of its message is      *)
(* sent, and a handle_message that runs on a chat is that of the holder        *)
C37_OneHandlerAtATime ==
    /\ \A t, u \in Handlers : (InHandler(t) /\ InHandler(u)) => t = u
    /\ \A t \in Handlers :
          (InHandler(t) \/ tasks[t].updates # <<>>) => sessionsLock.holder = <<t>>
    /\ \A c \in ChatIds :
          /\ sessions[c] # <<>> => sessions[c][1].chat_id = c
          /\ lastCall[c] = "Running"
                => \E t \in Handlers :
                       /\ InHandleMessage(t)
                       /\ tasks[t].chat_id = c
                       /\ sessionsLock.holder = <<t>>

C37_Witness ==
    \E t, u \in Handlers :
        /\ t # u
        /\ tasks[t].chat_id = tasks[u].chat_id
        /\ tasks[t].pc = "send"
        /\ Len(tasks[t].updates) = 2
        /\ tasks[u].pc = "sessions.lock"

(* C38: a task that holds the database lock holds the sessions lock too and    *)
(* waits for the database only, a task that waits for the database lock holds  *)
(* the sessions lock, no other task than a handler takes a lock, and a handler *)
(* that waits for the sessions lock acquires both locks in the end             *)
C38_NoDeadlock ==
    /\ [](\A t \in Handlers :
            /\ databaseLock.holder = <<t>>
                  => /\ sessionsLock.holder = <<t>>
                     /\ tasks[t].pc \in {"new: find_chat_by_id",
                                         "handle_message: insert_chat"}
            /\ tasks[t].pc \in {"new: db.lock", "handle_message: db.lock"}
                  => /\ sessionsLock.holder = <<t>>
                     /\ databaseLock.waiters = <<t>>)
    /\ [](/\ sessionsLock.holder \in {<<>>} \cup {<<t>> : t \in Handlers}
          /\ databaseLock.holder \in {<<>>} \cup {<<t>> : t \in Handlers})
    /\ \A t \in Handlers :
          (tasks[t].pc = "sessions.lock")
              ~> (sessionsLock.holder = <<t>> /\ databaseLock.holder = <<t>>)

C38_Witness ==
    \E t, u \in Handlers :
        /\ tasks[t].pc = "sessions.lock"
        /\ sessionsLock.waiters = <<t>>
        /\ sessionsLock.holder = <<u>>
        /\ databaseLock.holder = <<u>>

----------------------------------------------------------------------------
(* The startups of the process on one database: Db::new and migrate *)

besidesMigrate ==
    <<overflowChecks, opsVars, evalVars, storeVars, recordVars, sessionVars, mainVars,
      messageVars>>

InitMigrate ==
    /\ overflowChecks = FALSE
    /\ OpsIdle
    /\ EvalIdle
    /\ StoreIdle
    /\ RecordIdle
    /\ SessionIdle
    /\ ProcessIdle

(* the process is started: Db::new and migrate create their indexes, which *)
(* may fail, and migrate enters its loop over get_vec()                    *)
Start ==
    /\ startup.state # "migrating"
    /\ startup.count < MaxStartups
    /\ \E indexed \in BOOLEAN :
         startup' = IF indexed THEN Startup(startup.count + 1, 1, "migrating")
                    ELSE Startup(startup.count + 1, 0, "failed")
    /\ UNCHANGED <<migrations, runs, besidesMigrate>>

(* one pass of the loop of migrate: an Err ends the startup, the last Ok *)
(* has Db::new return the Db                                             *)
MigratePass ==
    /\ startup.state = "migrating"
    /\ \E found \in BOOLEAN, ran \in BOOLEAN, inserted \in BOOLEAN :
         \E pass \in {migrate_pass(migrations, get_vec[startup.position], startup.count,
                                   found, ran, inserted)} :
            /\ migrations' = pass.migrations
            /\ runs' = runs \o pass.runs
            /\ startup' = IF pass.result = "Err" THEN Startup(startup.count, 0, "failed")
                          ELSE IF startup.position = Len(get_vec)
                          THEN Startup(startup.count, 0, "up")
                          ELSE Startup(startup.count, startup.position + 1, "migrating")
    /\ UNCHANGED besidesMigrate

NextMigrate == Start \/ MigratePass

SpecMigrate == InitMigrate /\ [][NextMigrate]_vars_all

ListPosition(name) == CHOOSE k \in 1..Len(get_vec) : get_vec[k] = name
(* the actions of one startup run in list order, the startups one after another *)
RunsInOrder ==
    \A i, j \in 1..Len(runs) :
        i < j => /\ runs[i].startup <= runs[j].startup
                 /\ runs[i].startup = runs[j].startup
                       => ListPosition(runs[i].name) < ListPosition(runs[j].name)
(* a name is recorded only after its action returned Ok *)
RecordedAfterOk ==
    \A name \in migrations : \E i \in 1..Len(runs) : runs[i].name = name /\ runs[i].ok
(* a migration that failed stops its startup and is the next one to run *)
FailedIsRetried ==
    \A i \in 1..Len(runs) :
        ~runs[i].ok
            => /\ \A j \in 1..Len(runs) : i < j => runs[i].startup < runs[j].startup
               /\ i < Len(runs) => runs[i + 1].name = runs[i].name
(* a migration that returned Ok does not run again *)
SucceededOnce ==
    \A i, j \in 1..Len(runs) : (i < j /\ runs[i].ok) => runs[j].name # runs[i].name
(* an action runs only when its name is not recorded, and no record is lost *)
RunsOnlyUnrecorded ==
    /\ \A k \in (Len(runs) + 1)..Len(runs') : runs'[k].name \notin migrations
    /\ migrations \subseteq migrations'
(* a migration that ran and was not recorded stops its startup *)
UnrecordedStops ==
    (runs # <<>> /\ runs[Len(runs)].name \notin migrations)
        => (startup.state = "failed" \/ startup.count > runs[Len(runs)].startup)

(* C39 as stated: the migration actions run in list order, a name is recorded *)
(* only after its action returned Ok, a migration that succeeded never runs   *)
(* again, and a migration that failed stops the startup and is retried        *)
C39_SucceededNeverRunsAgain ==
    /\ RunsInOrder
    /\ RecordedAfterOk
    /\ FailedIsRetried
    /\ SucceededOnce

(* C39: across the startups migrate runs the migration actions in list order, *)
(* runs an action only when its name is not recorded, and records a name only *)
(* after that action returned Ok; a migration whose name is recorded never    *)
(* runs again, and a migration that failed, or that was not recorded after it *)
(* returned Ok, stops the startup and is the next one to run                  *)
C39_RecordedNeverRunsAgain ==
    /\ [](RunsInOrder /\ RecordedAfterOk /\ FailedIsRetried /\ UnrecordedStops)
    /\ [][RunsOnlyUnrecorded]_vars_all

C39_Witness ==
    /\ Len(runs) = 3
    /\ runs[1] = Run(get_vec[1], TRUE, 1)
    /\ runs[2] = Run(get_vec[2], FALSE, 1)
    /\ runs[3] = Run(get_vec[2], TRUE, 2)
    /\ migrations = {get_vec[1], get_vec[2]}
    /\ startup = Startup(2, 0, "up")

----------------------------------------------------------------------------
(* The variables derived from a message *)

InitMessage ==
    /\ overflowChecks = FALSE
    /\ OpsIdle
    /\ EvalIdle
    /\ StoreIdle
    /\ RecordIdle
    /\ SessionIdle
    /\ MainIdle
    /\ MigrateIdle
    /\ telegram \in Telegrams
    /\ derived = Derived(Variables_new, Variables_new)

(* Variables::from(&message), and Variables::from(MessageVariables::from(&message)) *)
Derive ==
    /\ derived = Derived(Variables_new, Variables_new)
    /\ derived' = Derived(Variables_from(telegram),
                          to_variables(MessageVariables_of(telegram), MessageVariablesFields))
    /\ UNCHANGED <<telegram, overflowChecks, opsVars, evalVars, storeVars, recordVars,
                   sessionVars, mainVars, migrateVars>>

NextMessage == Derive

SpecMessage == InitMessage /\ [][NextMessage]_vars_all

(* whether the part of the message a has_* variable stands for is present *)
Present(m, flag) ==
    CASE flag = "has_from"    -> m.from # <<>>
      [] flag = "has_origin"  -> m.origin.variant # "None"
      [] flag = "has_text"    -> m.media = "text"
      [] flag = "has_caption" -> m.caption # <<>>
      [] OTHER -> m.media \in MediaFlags /\ HasFlag[m.media] = flag
HasNames ==
    {"has_from", "has_origin", "has_text", "has_caption"}
        \cup {HasFlag[media] : media \in MediaFlags}

(* C40: in the Variables derived from a message, by either conversion, every  *)
(* has_* variable is bound to a Bool, never to Empty, and is true exactly     *)
(* when the part of the message it stands for is present                      *)
C40_HasFlagsAreBool ==
    derived # Derived(Variables_new, Variables_new)
        => \A flag \in HasNames :
               /\ flag \in DOMAIN derived.direct
               /\ derived.direct[flag] = VBool(Present(telegram, flag))
               /\ flag \in DOMAIN derived.through
               /\ derived.through[flag] = VBool(Present(telegram, flag))
====
